------------------------ MODULE ArchivePipeline_proofs ------------------------
(***************************************************************************)
(* Why the archive jobs of a relay host can be stopped anywhere: what lies *)
(* under a stamp comes from the one export with that stamp, manifests are  *)
(* completed in the order of their stamps, and a receipt's archive is a    *)
(* verified one.  The properties follow for every number of seconds,       *)
(* faults and hosts, and for all limits of the jobs' durations.            *)
(***************************************************************************)
EXTENDS ArchivePipeline, WellFoundedInduction, TLAPS

-----------------------------------------------------------------------------
(* The inductive invariant.                                                 *)

Files == {None} \cup UNION {Contents(s) : s \in Times}

Shapes ==
    /\ archiver \in {Idle} \cup [pc : {"verify"}, stamp : Times]
                           \cup [pc : {"move"}, stamp : Times, moved : 0 .. 2, staged : Times]
    /\ copier \in {Idle} \cup [pc : {"upload", "compare"}, stamp : Times, sent : 0 .. 2,
                               expected : Files, started : Times]
                         \cup [pc : {"receipt"}, at : Times]
    /\ drill \in {Idle} \cup [pc : {"download"}, stamp : Times, sha256 : Files,
                              got : [Artifacts -> Files], started : Times]
    /\ {verified, remote} \subseteq [Times -> [Artifacts -> Files]]
    /\ stagedAt \in [Times -> Times \cup {None}]
    /\ receipts \in [Places -> [Times -> {None} \cup [stamp : Times, sha256 : Files]]]

\* A file under a stamp is what was exported with it, or that file damaged.
From(stamp, artifact) == {None, Export(stamp), Damaged(stamp, artifact)}

FilesHaveOrigins ==
    \A s \in Times :
        \A a \in Artifacts :
            /\ {verified[s][a], remote[s][a]} \subseteq From(s, a)
            /\ verified[s][a] \in {None, Export(s)} \/ <<"local", s, a>> \in rotten

\* The archive being made has the latest stamp of all, and gets its files in order.
ArchiverProgress ==
    archiver # Idle =>
        /\ archiver.stamp \in names /\ archiver.stamp <= clock
        /\ \A s \in names : s <= archiver.stamp
        /\ \A s \in Manifests : stagedAt[s] <= archiver.stamp
        /\ archiver.pc = "verify" => verified[archiver.stamp] = NoFiles
        /\ archiver.pc = "move" =>
              /\ archiver.stamp <= archiver.staged /\ archiver.staged <= clock
              /\ verified[archiver.stamp]["archive"] # None <=> archiver.moved >= 1
              /\ verified[archiver.stamp]["checksum"] # None <=> archiver.moved >= 2
              /\ verified[archiver.stamp]["manifest"] = None

NamesArePast == \A s \in names : s <= clock

\* An archive was complete before the next one was begun.
ManifestsInOrder == \A s, t \in Manifests : s < t => stagedAt[s] <= t

\* What is being copied is a verified archive, not older than any with a receipt.
CopierProgress ==
    /\ copier.pc \in {"upload", "compare"} =>
          /\ copier.stamp \in Manifests /\ copier.expected = Export(copier.stamp)
          /\ \A p \in Places : \A t \in ReceiptTimes(p) : receipts[p][t].stamp <= copier.stamp
    /\ copier.pc = "receipt" =>
          \A p \in Places : \A t \in ReceiptTimes(p) :
              /\ t <= copier.at
              /\ receipts[p][t].stamp <= receipts["local"][copier.at].stamp

ReceiptsArePast ==
    \A p \in Places : \A t \in ReceiptTimes(p) : t <= clock /\ receipts[p][t].stamp \in Manifests

DrillProgress ==
    drill # Idle => \A a \in Artifacts : drill.got[a] \in From(drill.stamp, a)

\* What ReceiptsNameExports says of one receipt.
Named(receipt) ==
    LET s == receipt.stamp IN
    /\ receipt.sha256 = Export(s)
    /\ \A a \in Artifacts : remote[s][a] # None
    /\ \A a \in Artifacts : remote[s][a] # Export(s) =>
          \/ <<"remote", s, a>> \in rotten
          \/ a # "archive" /\ <<"local", s, a>> \in rotten

ArchiveInv ==
    /\ TypeOK /\ Shapes /\ FilesHaveOrigins
    /\ NamesArePast /\ ArchiverProgress /\ ManifestsInOrder /\ ManifestsComplete
    /\ CopierProgress /\ ReceiptsArePast /\ ReceiptsNameExports /\ LatestReceiptsNameNewestCopies
    /\ DrillProgress /\ DrillsRestoreExports

-----------------------------------------------------------------------------
(* The operators.                                                           *)

\* A set of numbers below a bound has a largest one ...
LEMMA MaximumExists ==
    ASSUME NEW bound \in Nat, NEW S, S \subseteq 0 .. bound, S # {}
    PROVE  \E x \in S : \A y \in S : x >= y
<1> DEFINE less == {pair \in Nat \X Nat : pair[1] < pair[2]}
           distances == {bound - x : x \in S}
<1>1. IsWellFoundedOn(less, Nat)
  BY NatLessThanWellFounded DEF OpToRel
<1>2. distances \subseteq Nat /\ distances # {}
  <2>1. \A x \in S : bound - x \in Nat
    OBVIOUS
  <2>2. PICK x \in S : TRUE
    OBVIOUS
  <2>3. bound - x \in distances
    BY <2>2
  <2>4. QED BY <2>1, <2>3
<1> HIDE DEF less, distances
<1>3. PICK d \in distances : \A e \in distances : <<e, d>> \notin less
  BY <1>1, <1>2, WFMin
<1>4. PICK x \in S : d = bound - x
  BY DEF distances
<1>5. ASSUME NEW y \in S PROVE x >= y
  <2>1. bound - y \in distances /\ <<bound - y, d>> \notin less
    BY <1>3 DEF distances
  <2>2. ~(bound - y < bound - x)
    BY <1>2, <1>4, <2>1 DEF less, distances
  <2>3. QED BY <2>2
<1>6. QED BY <1>5

\* ... which is its Max.
LEMMA MaxIsLargest ==
    ASSUME NEW S, S \subseteq Times, S # {}
    PROVE  Max(S) \in S /\ \A y \in S : y <= Max(S)
<1>1. \E x \in S : \A y \in S : x >= y
  BY TimesAreNatural, MaximumExists DEF Times
<1>2. Max(S) \in S /\ \A y \in S : Max(S) >= y
  BY <1>1 DEF Max
<1>3. QED BY <1>2 DEF Times

LEMMA ContentsAreFiles ==
    \A s \in Times : Export(s) \in Files /\ \A a \in Artifacts : Damaged(s, a) \in Files
BY DEF Files, Contents

LEMMA OriginsAreContents ==
    \A s \in Times : \A a \in Artifacts :
        From(s, a) \subseteq Contents(s) \cup {None} /\ Export(s) # None /\ Damaged(s, a) # None
BY NoneIsNoValue DEF From, Contents

\* The file that verifies is the one exported: damage is never to two files alike.
LEMMA DamageShows ==
    ASSUME NEW s \in Times, NEW file,
           file \in From(s, "archive"), file \in From(s, "checksum"), file # None
    PROVE  file = Export(s)
BY DEF From, Damaged, Export

LEMMA ManifestsAreNamed ==
    ASSUME TypeOK, Shapes, NEW s \in Manifests
    PROVE  s \in Times /\ s \in names /\ stagedAt[s] \in Nat /\ s <= stagedAt[s] /\ stagedAt[s] <= clock
<1>1. s \in Times /\ verified[s]["manifest"] # None
  BY DEF Manifests
<1>2. s \in names
  BY <1>1 DEF TypeOK, NoFiles, Artifacts
<1>3. stagedAt[s] # None
  BY <1>1 DEF TypeOK
<1>4. stagedAt[s] \in Times
  BY <1>1, <1>3 DEF Shapes
<1>5. QED
  BY <1>1, <1>2, <1>3, <1>4 DEF TypeOK, Times

-----------------------------------------------------------------------------
(* What a job leaves alone when another one takes a step.                   *)

LEMMA ArchiveInit == Init => ArchiveInv
<1> SUFFICES ASSUME Init PROVE ArchiveInv
  OBVIOUS
<1> USE DEF Init
<1>1. 0 \in Times
  BY TimesAreNatural DEF Times
<1>2. /\ \A s \in Times : \A a \in Artifacts : verified[s][a] = None /\ remote[s][a] = None
      /\ \A s \in Times : stagedAt[s] = None
      /\ \A p \in Places : \A t \in Times : receipts[p][t] = None
  BY DEF NoFiles
<1>3. Manifests = {} /\ \A p \in Places : ReceiptTimes(p) = {}
  BY <1>2 DEF Manifests, ReceiptTimes, Artifacts
<1>4. TypeOK
  BY <1>1, <1>2 DEF TypeOK, Idle, Artifacts
<1>5. Shapes
  BY <1>1 DEF Shapes, NoFiles, Files, Idle
<1>6. FilesHaveOrigins
  BY <1>2 DEF FilesHaveOrigins, From, Artifacts
<1>7. NamesArePast /\ ArchiverProgress /\ CopierProgress /\ DrillProgress
  BY DEF NamesArePast, ArchiverProgress, CopierProgress, DrillProgress, Idle
<1>8. ManifestsInOrder /\ ManifestsComplete /\ ReceiptsArePast /\ ReceiptsNameExports
      /\ LatestReceiptsNameNewestCopies
  BY <1>3 DEF ManifestsInOrder, ManifestsComplete, ReceiptsArePast, ReceiptsNameExports,
     LatestReceiptsNameNewestCopies
<1>9. DrillsRestoreExports
  BY DEF DrillsRestoreExports
<1>10. QED
  BY <1>4, <1>5, <1>6, <1>7, <1>8, <1>9 DEF ArchiveInv

\* A copy and its receipts stay what they are while verified archives stay.
LEMMA CopyingStays ==
    ASSUME ArchiveInv, UNCHANGED copying, rotten \subseteq rotten', Manifests \subseteq Manifests',
           clock' \in Times, clock <= clock'
    PROVE  CopierProgress' /\ ReceiptsArePast' /\ ReceiptsNameExports' /\ LatestReceiptsNameNewestCopies'
<1>1. UNCHANGED <<copier, remote, receipts>>
  BY DEF copying
<1>2. \A p \in Places : ReceiptTimes(p)' = ReceiptTimes(p)
  BY <1>1 DEF ReceiptTimes
<1>3. CopierProgress'
  BY <1>1, <1>2 DEF ArchiveInv, CopierProgress
<1>4. ReceiptsArePast'
  <2> SUFFICES ASSUME NEW p \in Places, NEW t \in ReceiptTimes(p)
               PROVE  t <= clock' /\ receipts[p][t].stamp \in Manifests'
    BY <1>1, <1>2 DEF ReceiptsArePast
  <2>1. t <= clock /\ receipts[p][t].stamp \in Manifests /\ t \in Times /\ clock \in Times
    BY DEF ArchiveInv, ReceiptsArePast, ReceiptTimes, TypeOK
  <2>2. QED
    BY <2>1 DEF Times
<1>5. ReceiptsNameExports' /\ LatestReceiptsNameNewestCopies'
  BY <1>1, <1>2 DEF ArchiveInv, ReceiptsNameExports, LatestReceiptsNameNewestCopies
<1>6. QED BY <1>3, <1>4, <1>5

LEMMA DrillingStays ==
    ASSUME ArchiveInv, UNCHANGED drilling
    PROVE  DrillProgress' /\ DrillsRestoreExports'
BY DEF ArchiveInv, DrillProgress, DrillsRestoreExports, drilling

LEMMA ArchivingStays ==
    ASSUME ArchiveInv, UNCHANGED archiving, rotten \subseteq rotten', clock' \in Times, clock <= clock'
    PROVE  /\ NamesArePast' /\ ArchiverProgress' /\ ManifestsInOrder' /\ ManifestsComplete'
           /\ Manifests' = Manifests
<1>1. UNCHANGED <<archiver, names, verified, stagedAt>>
  BY DEF archiving
<1>2. Manifests' = Manifests
  BY <1>1 DEF Manifests
<1>3. names \subseteq Times /\ clock \in Times
  BY DEF ArchiveInv, TypeOK
<1>4. NamesArePast'
  BY <1>1, <1>3 DEF ArchiveInv, NamesArePast, Times
<1>5. ArchiverProgress'
  <2> SUFFICES ASSUME archiver # Idle PROVE ArchiverProgress'
    BY <1>1 DEF ArchiverProgress
  <2>1. archiver.stamp <= clock'
    <3>1. archiver.stamp \in names /\ archiver.stamp <= clock
      BY DEF ArchiveInv, ArchiverProgress
    <3>2. archiver.stamp \in Times
      BY <1>3, <3>1
    <3>3. QED BY <1>3, <3>1, <3>2 DEF Times
  <2>2. archiver.pc = "move" => archiver.staged <= clock'
    <3>1. archiver.pc = "move" => archiver.staged \in Times /\ archiver.staged <= clock
      BY DEF ArchiveInv, ArchiverProgress, Shapes, Idle
    <3>2. QED BY <1>3, <3>1 DEF Times
  <2>3. /\ archiver' = archiver /\ names' = names /\ verified' = verified /\ stagedAt' = stagedAt
        /\ Manifests' = Manifests
    BY <1>1, <1>2
  <2>4. ArchiverProgress
    BY DEF ArchiveInv
  <2>5. QED
    BY <2>1, <2>2, <2>3, <2>4 DEF ArchiverProgress
<1>6. ManifestsInOrder' /\ ManifestsComplete'
  BY <1>1, <1>2 DEF ArchiveInv, ManifestsInOrder, ManifestsComplete
<1>7. QED BY <1>2, <1>4, <1>5, <1>6

LEMMA FilesStay ==
    ASSUME ArchiveInv, UNCHANGED <<verified, stagedAt, names, remote>>, rotten \subseteq rotten',
           clock' \in Times, clock <= clock',
           archiver'.pc \in {"idle", "verify", "move"},
           copier'.pc \in {"idle", "upload", "compare", "receipt"}
    PROVE  TypeOK' /\ FilesHaveOrigins'
<1>1. FilesHaveOrigins'
  BY DEF ArchiveInv, FilesHaveOrigins
<1>2. \A s \in Times : stagedAt[s] # None => stagedAt[s] \in Times /\ stagedAt[s] <= clock'
  BY DEF ArchiveInv, TypeOK, Shapes, Times
<1>3. QED
  BY <1>1, <1>2 DEF ArchiveInv, TypeOK

LEMMA TickStep ==
    ASSUME ArchiveInv, Tick
    PROVE  ArchiveInv'
<1>1. clock' \in Times /\ clock <= clock'
  BY TimesAreNatural DEF ArchiveInv, TypeOK, Tick, Times
<1>2. TypeOK' /\ FilesHaveOrigins'
  BY <1>1, FilesStay DEF Tick, archiving, copying, ArchiveInv, TypeOK
<1>3. Shapes'
  BY DEF Tick, archiving, copying, drilling, ArchiveInv, Shapes
<1>4. QED
  BY <1>1, <1>2, <1>3, ArchivingStays, CopyingStays, DrillingStays DEF Tick, ArchiveInv

-----------------------------------------------------------------------------
(* Steps of archive.sh, and damage.                                         *)

\* A step that moves no file.
LEMMA ArchiverStep ==
    ASSUME ArchiveInv, ArchiverOnly, UNCHANGED <<verified, stagedAt>>,
           names \subseteq names', names' \subseteq Times,
           archiver' \in {Idle} \cup [pc : {"verify"}, stamp : Times]
                           \cup [pc : {"move"}, stamp : Times, moved : 0 .. 2, staged : Times],
           NamesArePast', ArchiverProgress'
    PROVE  ArchiveInv'
<1>1. UNCHANGED <<clock, copying, drilling, copier, remote, receipts, drill, rotten>>
  BY DEF ArchiverOnly, copying, drilling
<1>2. Manifests' = Manifests
  BY DEF Manifests
<1>3. TypeOK'
  <2>1. archiver'.pc \in {"idle", "verify", "move"}
    BY DEF Idle
  <2>2. QED
    BY <1>1, <2>1 DEF ArchiveInv, TypeOK
<1>4. Shapes'
  BY <1>1 DEF ArchiveInv, Shapes
<1>5. FilesHaveOrigins' /\ ManifestsInOrder' /\ ManifestsComplete'
  BY <1>1, <1>2 DEF ArchiveInv, FilesHaveOrigins, ManifestsInOrder, ManifestsComplete
<1>6. clock' \in Times /\ clock <= clock'
  BY <1>1 DEF ArchiveInv, TypeOK, Times
<1>7. QED
  BY <1>1, <1>2, <1>3, <1>4, <1>5, <1>6, CopyingStays, DrillingStays DEF ArchiveInv

LEMMA StartArchiveStep ==
    ASSUME ArchiveInv, StartArchive
    PROVE  ArchiveInv'
<1>1. /\ archiver' = [pc |-> "verify", stamp |-> clock] /\ names' = names \cup {clock}
      /\ clock \notin names /\ UNCHANGED <<clock, verified, stagedAt>> /\ ArchiverOnly
  BY DEF StartArchive, ArchiverOnly
<1>2. clock \in Times /\ clock \in Nat /\ names \subseteq Times
  BY DEF ArchiveInv, TypeOK, Times
<1>3. NamesArePast'
  BY <1>1, <1>2 DEF ArchiveInv, NamesArePast
<1>4. \A s \in Manifests : stagedAt[s] <= clock
  BY ManifestsAreNamed DEF ArchiveInv
<1>5. Manifests' = Manifests
  BY <1>1 DEF Manifests
<1>6. verified[clock] = NoFiles
  BY <1>1, <1>2 DEF ArchiveInv, TypeOK
<1>7. ArchiverProgress'
  <2>1. archiver'.stamp = clock /\ archiver'.pc = "verify"
    BY <1>1
  <2>2. \A s \in names' : s <= clock
    BY <1>1, <1>2 DEF ArchiveInv, NamesArePast
  <2>3. QED
    BY <1>1, <1>2, <1>4, <1>5, <1>6, <2>1, <2>2 DEF ArchiverProgress
<1>8. QED
  BY <1>1, <1>2, <1>3, <1>7, ArchiverStep

LEMMA StageStep ==
    ASSUME ArchiveInv, Stage
    PROVE  ArchiveInv'
<1>1. /\ archiver' = [pc |-> "move", stamp |-> archiver.stamp, moved |-> 0, staged |-> clock]
      /\ archiver.pc = "verify" /\ UNCHANGED <<clock, names, verified, stagedAt>> /\ ArchiverOnly
  BY DEF Stage, ArchiverOnly
<1>2. archiver # Idle /\ archiver.stamp \in Times /\ clock \in Times /\ names \subseteq Times
  BY <1>1 DEF ArchiveInv, Shapes, Idle, TypeOK
<1>3. Manifests' = Manifests
  BY <1>1 DEF Manifests
<1>4. /\ archiver.stamp \in names /\ archiver.stamp <= clock
      /\ \A s \in names : s <= archiver.stamp
      /\ \A s \in Manifests : stagedAt[s] <= archiver.stamp
      /\ verified[archiver.stamp] = NoFiles
  BY <1>1, <1>2 DEF ArchiveInv, ArchiverProgress
<1>5. ArchiverProgress'
  <2>1. /\ archiver'.stamp = archiver.stamp /\ archiver'.pc = "move"
        /\ archiver'.moved = 0 /\ archiver'.staged = clock
    BY <1>1
  <2>2. \A a \in Artifacts : verified'[archiver.stamp][a] = None
    BY <1>1, <1>4 DEF NoFiles
  <2>3. archiver.stamp <= clock /\ clock <= clock
    BY <1>2, <1>4 DEF Times
  <2>4. QED
    BY <1>1, <1>3, <1>4, <2>1, <2>2, <2>3 DEF ArchiverProgress, Artifacts
<1>6. NamesArePast'
  BY <1>1 DEF ArchiveInv, NamesArePast
<1>7. QED
  BY <1>1, <1>2, <1>5, <1>6, ArchiverStep

LEMMA ArchiveStopsStep ==
    ASSUME ArchiveInv, ArchiveStops
    PROVE  ArchiveInv'
<1>1. archiver' = Idle /\ UNCHANGED <<clock, names, verified, stagedAt>> /\ ArchiverOnly
  BY DEF ArchiveStops, ArchiverOnly
<1>2. ArchiverProgress' /\ NamesArePast'
  BY <1>1 DEF ArchiverProgress, ArchiveInv, NamesArePast
<1>3. QED
  BY <1>1, <1>2, ArchiverStep DEF ArchiveInv, TypeOK

\* The manifest comes last: what it completes is all there, and it is the
\* latest one.
LEMMA MoveStep ==
    ASSUME ArchiveInv, Move
    PROVE  ArchiveInv'
<1> DEFINE stamp == archiver.stamp
           next == archiver.moved + 1
           artifact == MoveOrder[next]
<1>1. /\ archiver.pc = "move"
      /\ verified' = [verified EXCEPT ![stamp][artifact] = Export(stamp)]
      /\ stagedAt' = IF artifact = "manifest" THEN [stagedAt EXCEPT ![stamp] = archiver.staged] ELSE stagedAt
      /\ archiver' = IF next = 3 THEN Idle ELSE [archiver EXCEPT !.moved = next]
      /\ UNCHANGED <<clock, names>> /\ ArchiverOnly
  BY DEF Move, ArchiverOnly, MoveOrder
<1>2. /\ archiver \in [pc : {"move"}, stamp : Times, moved : 0 .. 2, staged : Times]
      /\ archiver # Idle
  BY <1>1 DEF ArchiveInv, Shapes, Idle
<1>3. /\ stamp \in Times /\ stamp \in Nat /\ next \in 1 .. 3 /\ archiver.staged \in Times
      /\ archiver.moved \in 0 .. 2
  BY <1>2 DEF Times
<1>4. /\ next = 1 => artifact = "archive"
      /\ next = 2 => artifact = "checksum"
      /\ next = 3 => artifact = "manifest"
      /\ artifact \in Artifacts
  BY <1>3 DEF MoveOrder, Artifacts
<1>5. /\ stamp \in names /\ stamp <= clock
      /\ \A s \in names : s <= stamp
      /\ \A s \in Manifests : stagedAt[s] <= stamp
      /\ stamp <= archiver.staged /\ archiver.staged <= clock
      /\ verified[stamp]["archive"] # None <=> archiver.moved >= 1
      /\ verified[stamp]["checksum"] # None <=> archiver.moved >= 2
      /\ verified[stamp]["manifest"] = None
  BY <1>1, <1>2 DEF ArchiveInv, ArchiverProgress
<1>6. next = 3 => archiver' = Idle
  BY <1>1
<1>7. next # 3 => /\ archiver'.pc = "move" /\ archiver'.stamp = stamp
                  /\ archiver'.staged = archiver.staged /\ archiver'.moved = next
                  /\ archiver' \in [pc : {"move"}, stamp : Times, moved : 0 .. 2, staged : Times]
  BY <1>1, <1>2, <1>3
<1>8. /\ verified' \in [Times -> [Artifacts -> Files]]
      /\ \A s \in Times \ {stamp} : verified'[s] = verified[s]
      /\ verified'[stamp][artifact] = Export(stamp)
      /\ \A a \in Artifacts \ {artifact} : verified'[stamp][a] = verified[stamp][a]
  <2>1. verified \in [Times -> [Artifacts -> Files]]
    BY DEF ArchiveInv, Shapes
  <2>2. QED
    BY <1>1, <1>3, <1>4, <2>1, ContentsAreFiles
<1>9. /\ stagedAt' \in [Times -> Times \cup {None}]
      /\ artifact = "manifest" => stagedAt'[stamp] = archiver.staged
      /\ artifact # "manifest" => stagedAt'[stamp] = stagedAt[stamp]
      /\ \A s \in Times \ {stamp} : stagedAt'[s] = stagedAt[s]
  <2>1. stagedAt \in [Times -> Times \cup {None}]
    BY DEF ArchiveInv, Shapes
  <2>2. QED
    BY <1>1, <1>3, <2>1
<1>10. /\ stamp \notin Manifests
       /\ Manifests' = IF artifact = "manifest" THEN Manifests \cup {stamp} ELSE Manifests
  <2>1. "manifest" \in Artifacts /\ Export(stamp) # None
    BY <1>3, NoneIsNoValue DEF Artifacts
  <2>2. QED
    BY <1>3, <1>5, <1>8, <2>1 DEF Manifests
<1>11. UNCHANGED <<copying, drilling, copier, remote, receipts, drill, rotten>>
  BY <1>1 DEF ArchiverOnly, copying, drilling
<1> HIDE DEF next, artifact, stamp
<1>12. FilesHaveOrigins'
  <2>1. \A s \in Times \ {stamp} : verified'[s] = verified[s]
    BY <1>8
  <2>2. \A a \in Artifacts :
            /\ verified'[stamp][a] \in From(stamp, a)
            /\ verified'[stamp][a] \in {None, Export(stamp)} \/ <<"local", stamp, a>> \in rotten
    BY <1>3, <1>4, <1>8 DEF ArchiveInv, FilesHaveOrigins, From
  <2>3. QED
    BY <1>11, <2>1, <2>2 DEF ArchiveInv, FilesHaveOrigins
<1>13. TypeOK'
  <2>1. clock' \in Times /\ names' \subseteq Times
    BY <1>1 DEF ArchiveInv, TypeOK
  <2>2. \A s \in Times \ names' : verified'[s] = NoFiles
    BY <1>1, <1>5, <1>8 DEF ArchiveInv, TypeOK
  <2>3. archiver'.pc \in {"idle", "verify", "move"}
    BY <1>6, <1>7 DEF Idle
  <2>4. copier'.pc \in {"idle", "upload", "compare", "receipt"}
    BY <1>11 DEF ArchiveInv, TypeOK
  <2>5. \A s \in Times : \A a \in Artifacts :
            {verified'[s][a], remote'[s][a]} \subseteq Contents(s) \cup {None}
    <3>1. Export(stamp) \in Contents(stamp)
      BY DEF Contents
    <3>2. QED
      BY <1>8, <1>11, <3>1 DEF ArchiveInv, TypeOK
  <2>6. \A s \in Times : stagedAt'[s] # None <=> verified'[s]["manifest"] # None
    <3>1. archiver.staged # None /\ Export(stamp) # None /\ "manifest" \in Artifacts
      BY <1>3, NoneIsNoValue DEF Artifacts
    <3>2. QED
      BY <1>8, <1>9, <3>1 DEF ArchiveInv, TypeOK
  <2>7. \A s \in Times : stagedAt'[s] # None => s <= stagedAt'[s] /\ stagedAt'[s] <= clock'
    BY <1>1, <1>5, <1>9 DEF ArchiveInv, TypeOK
  <2>8. QED
    BY <2>1, <2>2, <2>3, <2>4, <2>5, <2>6, <2>7 DEF TypeOK
<1>14. Shapes'
  <2>1. archiver' \in {Idle} \cup [pc : {"move"}, stamp : Times, moved : 0 .. 2, staged : Times]
    BY <1>6, <1>7
  <2>2. QED
    BY <1>8, <1>9, <1>11, <2>1 DEF ArchiveInv, Shapes
<1>15. NamesArePast'
  BY <1>1 DEF ArchiveInv, NamesArePast
<1>16. ArchiverProgress'
  <2>1. CASE next = 3
    BY <1>6, <2>1 DEF ArchiverProgress
  <2>2. CASE next # 3
    <3>1. artifact # "manifest" /\ Manifests' = Manifests /\ stagedAt' = stagedAt
      BY <1>1, <1>3, <1>4, <1>10, <2>2 DEF artifact, stamp
    <3>2. verified'[stamp]["archive"] # None <=> next >= 1
      BY <1>3, <1>4, <1>5, <1>8, <2>2, NoneIsNoValue DEF Artifacts, next
    <3>3. verified'[stamp]["checksum"] # None <=> next >= 2
      BY <1>3, <1>4, <1>5, <1>8, <2>2, NoneIsNoValue DEF Artifacts, next
    <3>4. verified'[stamp]["manifest"] = None
      BY <1>5, <1>8, <3>1 DEF Artifacts
    <3>5. QED
      BY <1>1, <1>5, <1>7, <2>2, <3>1, <3>2, <3>3, <3>4 DEF ArchiverProgress
  <2>3. QED BY <2>1, <2>2
<1>17. ManifestsInOrder'
  <2> SUFFICES ASSUME NEW s \in Manifests', NEW t \in Manifests', s < t PROVE stagedAt'[s] <= t
    BY DEF ManifestsInOrder
  <2>1. s # stamp
    <3>1. SUFFICES ASSUME s = stamp PROVE FALSE
      OBVIOUS
    <3>2. t \in names /\ t \in Times
      BY <1>5, <1>10, ManifestsAreNamed DEF ArchiveInv, TypeOK
    <3>3. t <= stamp
      BY <1>5, <3>2
    <3>4. QED
      BY <1>3, <3>1, <3>2, <3>3 DEF Times
  <2>2. s \in Manifests /\ s \in Times /\ stagedAt'[s] = stagedAt[s]
    BY <1>9, <1>10, <2>1 DEF Manifests
  <2>3. CASE t = stamp
    BY <1>5, <2>2, <2>3
  <2>4. CASE t # stamp
    BY <1>10, <2>2, <2>4 DEF ArchiveInv, ManifestsInOrder
  <2>5. QED BY <2>3, <2>4
<1>18. ManifestsComplete'
  <2> SUFFICES ASSUME NEW s \in Manifests', NEW a \in Artifacts
               PROVE  verified'[s][a] # None /\ (verified'[s][a] = Export(s) \/ <<"local", s, a>> \in rotten)
    BY <1>11 DEF ManifestsComplete
  <2>1. CASE s # stamp
    <3>1. s \in Manifests /\ verified'[s] = verified[s]
      BY <1>8, <1>10, <2>1 DEF Manifests
    <3>2. QED
      BY <3>1 DEF ArchiveInv, ManifestsComplete
  <2>2. CASE s = stamp
    <3>1. artifact = "manifest" /\ next = 3
      BY <1>3, <1>4, <1>10, <2>2
    <3>2. verified[stamp]["archive"] # None /\ verified[stamp]["checksum"] # None
      BY <1>3, <1>5, <3>1 DEF next
    <3>3. verified'[stamp][a] # None
      BY <1>3, <1>8, <3>1, <3>2, NoneIsNoValue DEF Artifacts
    <3>4. verified'[stamp][a] \in {None, Export(stamp)} \/ <<"local", stamp, a>> \in rotten
      BY <1>3, <1>11, <1>12 DEF FilesHaveOrigins
    <3>5. QED
      BY <2>2, <3>3, <3>4
  <2>3. QED BY <2>1, <2>2
<1>19. clock' \in Times /\ clock <= clock' /\ Manifests \subseteq Manifests'
  BY <1>1, <1>10 DEF ArchiveInv, TypeOK, Times
<1>20. QED
  BY <1>11, <1>12, <1>13, <1>14, <1>15, <1>16, <1>17, <1>18, <1>19, CopyingStays, DrillingStays DEF ArchiveInv

\* Damage leaves no file missing and is on record; none that is expected to be
\* missing is damaged.
LEMMA RotStep ==
    ASSUME ArchiveInv, NEW stamp \in Times, NEW artifact \in Artifacts, Rot(stamp, artifact)
    PROVE  ArchiveInv'
<1>1. /\ UNCHANGED <<clock, archiver, names, stagedAt, copier, receipts, host, drill, evidence>>
      /\ UNCHANGED drilling
  BY DEF Rot, drilling
<1>2. clock' \in Times /\ clock <= clock'
  BY <1>1 DEF ArchiveInv, TypeOK, Times
<1>3. /\ verified \in [Times -> [Artifacts -> Files]]
      /\ remote \in [Times -> [Artifacts -> Files]]
  BY DEF ArchiveInv, Shapes
<1>4. Damaged(stamp, artifact) \in Contents(stamp) /\ Damaged(stamp, artifact) # None
      /\ Damaged(stamp, artifact) \in Files /\ Damaged(stamp, artifact) \in From(stamp, artifact)
  BY NoneIsNoValue, ContentsAreFiles DEF Contents, From
<1>5. CASE /\ verified[stamp][artifact] # None
           /\ verified' = [verified EXCEPT ![stamp][artifact] = Damaged(stamp, artifact)]
           /\ rotten' = rotten \cup {<<"local", stamp, artifact>>}
           /\ UNCHANGED remote
  <2>1. /\ verified' \in [Times -> [Artifacts -> Files]]
        /\ verified'[stamp][artifact] = Damaged(stamp, artifact)
        /\ \A s \in Times : \A a \in Artifacts :
              <<s, a>> # <<stamp, artifact>> => verified'[s][a] = verified[s][a]
        /\ \A s \in Times \ {stamp} : verified'[s] = verified[s]
    BY <1>3, <1>4, <1>5
  <2>2. \A s \in Times : \A a \in Artifacts : verified'[s][a] # None <=> verified[s][a] # None
    BY <1>4, <1>5, <2>1
  <2>3. Manifests' = Manifests
    BY <2>2 DEF Manifests, Artifacts
  <2>4. FilesHaveOrigins'
    <3> SUFFICES ASSUME NEW s \in Times, NEW a \in Artifacts
                 PROVE  /\ {verified'[s][a], remote[s][a]} \subseteq From(s, a)
                        /\ verified'[s][a] \in {None, Export(s)} \/ <<"local", s, a>> \in rotten'
      BY <1>5 DEF FilesHaveOrigins
    <3>1. QED
      BY <1>4, <1>5, <2>1 DEF ArchiveInv, FilesHaveOrigins
  <2>5. stamp \in names
    BY <1>5 DEF ArchiveInv, TypeOK, NoFiles
  <2>6. TypeOK'
    <3>1. \A s \in Times \ names : verified'[s] = NoFiles
      BY <2>1, <2>5 DEF ArchiveInv, TypeOK
    <3>2. \A s \in Times : \A a \in Artifacts :
              {verified'[s][a], remote[s][a]} \subseteq Contents(s) \cup {None}
      BY <1>4, <2>1 DEF ArchiveInv, TypeOK
    <3>3. \A s \in Times : stagedAt[s] # None <=> verified'[s]["manifest"] # None
      BY <2>2 DEF ArchiveInv, TypeOK, Artifacts
    <3>4. QED
      BY <1>1, <1>5, <3>1, <3>2, <3>3 DEF ArchiveInv, TypeOK
  <2>7. Shapes'
    BY <1>1, <1>5, <2>1 DEF ArchiveInv, Shapes
  <2>8. NamesArePast' /\ ManifestsInOrder'
    BY <1>1, <2>3 DEF ArchiveInv, NamesArePast, ManifestsInOrder
  <2>9. ArchiverProgress'
    <3> SUFFICES ASSUME archiver # Idle PROVE ArchiverProgress'
      BY <1>1 DEF ArchiverProgress
    <3>1. archiver.stamp \in Times
      BY DEF ArchiveInv, ArchiverProgress, TypeOK
    <3>2. archiver.pc = "verify" => verified'[archiver.stamp] = NoFiles
      BY <1>5, <2>1, <3>1 DEF ArchiveInv, ArchiverProgress, NoFiles
    <3>3. \A a \in Artifacts : verified'[archiver.stamp][a] # None <=> verified[archiver.stamp][a] # None
      BY <2>2, <3>1
    <3>4. ArchiverProgress
      BY DEF ArchiveInv
    <3>5. QED
      BY <1>1, <2>3, <3>2, <3>3, <3>4 DEF ArchiverProgress, Artifacts
  <2>10. ManifestsComplete'
    <3> SUFFICES ASSUME NEW s \in Manifests, NEW a \in Artifacts
                 PROVE  /\ verified'[s][a] # None
                        /\ verified'[s][a] = Export(s) \/ <<"local", s, a>> \in rotten'
      BY <2>3 DEF ManifestsComplete
    <3>1. /\ s \in Times /\ verified[s][a] # None
          /\ verified[s][a] = Export(s) \/ <<"local", s, a>> \in rotten
      BY DEF ArchiveInv, ManifestsComplete, Manifests
    <3>2. QED
      BY <1>5, <2>1, <2>2, <3>1
  <2>11. UNCHANGED copying /\ rotten \subseteq rotten'
    BY <1>1, <1>5 DEF copying
  <2>12. QED
    BY <1>1, <1>2, <2>3, <2>4, <2>6, <2>7, <2>8, <2>9, <2>10, <2>11, CopyingStays, DrillingStays DEF ArchiveInv
<1>6. CASE /\ remote[stamp][artifact] # None
           /\ remote' = [remote EXCEPT ![stamp][artifact] = Damaged(stamp, artifact)]
           /\ rotten' = rotten \cup {<<"remote", stamp, artifact>>}
           /\ UNCHANGED verified
  <2>1. /\ remote' \in [Times -> [Artifacts -> Files]]
        /\ remote'[stamp][artifact] = Damaged(stamp, artifact)
        /\ \A s \in Times : \A a \in Artifacts :
              <<s, a>> # <<stamp, artifact>> => remote'[s][a] = remote[s][a]
    BY <1>3, <1>4, <1>6
  <2>2. UNCHANGED archiving /\ rotten \subseteq rotten'
    BY <1>1, <1>6 DEF archiving
  <2>3. FilesHaveOrigins'
    <3> SUFFICES ASSUME NEW s \in Times, NEW a \in Artifacts
                 PROVE  /\ {verified[s][a], remote'[s][a]} \subseteq From(s, a)
                        /\ verified[s][a] \in {None, Export(s)} \/ <<"local", s, a>> \in rotten'
      BY <1>6 DEF FilesHaveOrigins
    <3>1. QED
      BY <1>4, <1>6, <2>1, <2>2 DEF ArchiveInv, FilesHaveOrigins
  <2>4. TypeOK'
    <3>1. \A s \in Times : \A a \in Artifacts :
              {verified[s][a], remote'[s][a]} \subseteq Contents(s) \cup {None}
      BY <1>4, <2>1 DEF ArchiveInv, TypeOK
    <3>2. QED
      BY <1>1, <1>6, <3>1 DEF ArchiveInv, TypeOK
  <2>5. Shapes'
    BY <1>1, <1>6, <2>1 DEF ArchiveInv, Shapes
  <2>6. \A p \in Places : ReceiptTimes(p)' = ReceiptTimes(p)
    BY <1>1 DEF ReceiptTimes
  <2>7. ReceiptsNameExports'
    <3> SUFFICES ASSUME NEW p \in Places, NEW t \in ReceiptTimes(p)
                 PROVE  Named(receipts[p][t])'
      BY <1>1, <2>6 DEF ReceiptsNameExports, Named
    <3>1. Named(receipts[p][t]) /\ receipts[p][t].stamp \in Times
      BY DEF ArchiveInv, ReceiptsNameExports, ReceiptsArePast, Manifests, Named
    <3>2. QED
      BY <1>1, <1>4, <1>6, <2>1, <2>2, <3>1 DEF Named
  <2>8. Manifests' = Manifests
    BY <1>6 DEF Manifests
  <2>9. CopierProgress' /\ ReceiptsArePast' /\ LatestReceiptsNameNewestCopies'
    BY <1>1, <2>6, <2>8 DEF ArchiveInv, CopierProgress, ReceiptsArePast, LatestReceiptsNameNewestCopies
  <2>10. QED
    BY <1>1, <1>2, <2>2, <2>3, <2>4, <2>5, <2>7, <2>9, ArchivingStays, DrillingStays DEF ArchiveInv
<1>7. QED
  BY <1>5, <1>6 DEF Rot

-----------------------------------------------------------------------------
(* Steps of off-provider-copy.sh.                                           *)

\* The latest manifest is the one of the latest stamp.
LEMMA LatestIsNewest ==
    ASSUME TypeOK, Shapes, ManifestsInOrder, Manifests # {}
    PROVE  /\ latest_verified_manifest \in Manifests
           /\ \A s \in Manifests : s <= latest_verified_manifest
<1> DEFINE Latest(s) == \A t \in Manifests :
               stagedAt[t] < stagedAt[s] \/ (stagedAt[t] = stagedAt[s] /\ t <= s)
<1>1. Manifests \subseteq Times /\ Times \subseteq Nat
  BY DEF Manifests, Times
<1>2. \A s \in Manifests : stagedAt[s] \in Nat /\ s <= stagedAt[s]
  BY ManifestsAreNamed
<1>3. PICK m \in Manifests : \A t \in Manifests : t <= m
  BY <1>1, MaxIsLargest
<1>4. Latest(m)
  <2> SUFFICES ASSUME NEW t \in Manifests
               PROVE  stagedAt[t] < stagedAt[m] \/ (stagedAt[t] = stagedAt[m] /\ t <= m)
    OBVIOUS
  <2>1. t <= m /\ t \in Nat /\ m \in Nat /\ stagedAt[t] \in Nat /\ stagedAt[m] \in Nat /\ m <= stagedAt[m]
    BY <1>1, <1>2, <1>3
  <2>2. t < m => stagedAt[t] <= m
    BY DEF ManifestsInOrder
  <2>3. t = m => stagedAt[t] = stagedAt[m]
    OBVIOUS
  <2>4. QED BY <2>1, <2>2, <2>3
<1>5. latest_verified_manifest \in Manifests /\ Latest(latest_verified_manifest)
  BY <1>4 DEF latest_verified_manifest
<1> DEFINE x == latest_verified_manifest
<1>6. x = m
  <2>1. stagedAt[m] < stagedAt[x] \/ (stagedAt[m] = stagedAt[x] /\ m <= x)
    BY <1>5
  <2>2. stagedAt[x] < stagedAt[m] \/ (stagedAt[x] = stagedAt[m] /\ x <= m)
    BY <1>4, <1>5
  <2>3. x \in Nat /\ m \in Nat /\ stagedAt[x] \in Nat /\ stagedAt[m] \in Nat
    BY <1>1, <1>2, <1>5
  <2> HIDE DEF x
  <2>4. QED BY <2>1, <2>2, <2>3
<1>7. QED
  BY <1>3, <1>6

\* What a step of the copy job leaves of the others.
LEMMA CopierFrame ==
    ASSUME ArchiveInv, CopierOnly
    PROVE  /\ UNCHANGED <<clock, archiving, archiver, names, verified, stagedAt, drilling, drill, rotten>>
           /\ clock' \in Times /\ clock <= clock' /\ Manifests' = Manifests
<1>1. UNCHANGED <<clock, archiving, archiver, names, verified, stagedAt, drilling, drill, rotten>>
  BY DEF CopierOnly, archiving, drilling
<1>2. clock' \in Times /\ clock <= clock'
  BY <1>1 DEF ArchiveInv, TypeOK, Times
<1>3. Manifests' = Manifests
  BY <1>1 DEF Manifests
<1>4. QED BY <1>1, <1>2, <1>3

\* A step that sends nothing.
LEMMA CopierStep ==
    ASSUME ArchiveInv, CopierOnly, UNCHANGED remote,
           copier' \in {Idle} \cup [pc : {"upload", "compare"}, stamp : Times, sent : 0 .. 2,
                                    expected : Files, started : Times]
                         \cup [pc : {"receipt"}, at : Times],
           receipts' \in [Places -> [Times -> {None} \cup [stamp : Times, sha256 : Files]]],
           CopierProgress', ReceiptsArePast', ReceiptsNameExports', LatestReceiptsNameNewestCopies'
    PROVE  ArchiveInv'
<1>1. UNCHANGED <<clock, archiving, archiver, names, verified, stagedAt, drilling, drill, rotten>>
      /\ clock' \in Times /\ clock <= clock'
  BY CopierFrame
<1>2. copier'.pc \in {"idle", "upload", "compare", "receipt"}
  BY DEF Idle
<1>3. TypeOK' /\ FilesHaveOrigins'
  <2>1. archiver'.pc \in {"idle", "verify", "move"}
    BY <1>1 DEF ArchiveInv, TypeOK
  <2>2. QED
    BY <1>1, <1>2, <2>1, FilesStay
<1>4. Shapes'
  BY <1>1 DEF ArchiveInv, Shapes
<1>5. QED
  BY <1>1, <1>3, <1>4, ArchivingStays, DrillingStays DEF ArchiveInv

\* Of the latest archive, no older one has a receipt yet: all are of verified
\* archives.
LEMMA SelectStep ==
    ASSUME ArchiveInv, SelectManifest
    PROVE  ArchiveInv'
<1> DEFINE latest == latest_verified_manifest
<1>1. /\ CopierOnly /\ UNCHANGED <<remote, receipts>> /\ Manifests # {}
      /\ verified[latest]["archive"] = verified[latest]["checksum"]
      /\ verified[latest]["archive"] # None
      /\ copier' = [pc |-> "upload", stamp |-> latest, sent |-> 0,
                    expected |-> verified[latest]["checksum"], started |-> clock]
  BY DEF SelectManifest, Artifacts
<1>2. latest \in Manifests /\ \A s \in Manifests : s <= latest
  BY <1>1, LatestIsNewest DEF ArchiveInv
<1> HIDE DEF latest
<1>3. latest \in Times /\ verified[latest]["checksum"] = Export(latest) /\ Export(latest) \in Files
      /\ clock \in Times
  <2>1. latest \in Times
    BY <1>2 DEF Manifests
  <2>2. /\ verified[latest]["archive"] \in From(latest, "archive")
        /\ verified[latest]["checksum"] \in From(latest, "checksum")
    BY <2>1 DEF ArchiveInv, FilesHaveOrigins, Artifacts
  <2>3. verified[latest]["checksum"] = Export(latest)
    BY <1>1, <2>1, <2>2, DamageShows
  <2>4. QED
    BY <2>1, <2>3, ContentsAreFiles DEF ArchiveInv, TypeOK
<1>4. UNCHANGED <<clock, rotten>> /\ Manifests' = Manifests
  BY <1>1, CopierFrame
<1>5. \A p \in Places : ReceiptTimes(p)' = ReceiptTimes(p)
  BY <1>1 DEF ReceiptTimes
<1>6. CopierProgress'
  BY <1>1, <1>2, <1>3, <1>4, <1>5 DEF CopierProgress, ArchiveInv, ReceiptsArePast
<1>7. ReceiptsArePast' /\ ReceiptsNameExports' /\ LatestReceiptsNameNewestCopies'
  BY <1>1, <1>4, <1>5 DEF ArchiveInv, ReceiptsArePast, ReceiptsNameExports, LatestReceiptsNameNewestCopies
<1>8. receipts' \in [Places -> [Times -> {None} \cup [stamp : Times, sha256 : Files]]]
  BY <1>1 DEF ArchiveInv, Shapes
<1>9. copier' \in [pc : {"upload", "compare"}, stamp : Times, sent : 0 .. 2, expected : Files, started : Times]
  BY <1>1, <1>3
<1>10. QED
  BY <1>1, <1>6, <1>7, <1>8, <1>9, CopierStep

\* A file that is there is not overwritten, so what has a receipt stays.
LEMMA UploadStep ==
    ASSUME ArchiveInv, Upload
    PROVE  ArchiveInv'
<1> DEFINE stamp == copier.stamp
           artifact == Artifact(copier.sent + 1)
<1>1. /\ CopierOnly /\ UNCHANGED receipts /\ copier.pc = "upload"
      /\ copier' = IF copier.sent = 2 THEN [copier EXCEPT !.pc = "compare"] ELSE [copier EXCEPT !.sent = @ + 1]
      /\ \/ /\ remote[stamp][artifact] \in {None, verified[stamp][artifact]}
            /\ remote' = [remote EXCEPT ![stamp][artifact] = verified[stamp][artifact]]
         \/ /\ remote[stamp][artifact] = None
            /\ remote' = [remote EXCEPT ![stamp][artifact] = Damaged(stamp, artifact)]
  BY DEF Upload
<1>2. copier \in [pc : {"upload"}, stamp : Times, sent : 0 .. 2, expected : Files, started : Times]
  BY <1>1 DEF ArchiveInv, Shapes, Idle
<1>3. stamp \in Times /\ artifact \in Artifacts
  BY <1>2 DEF Artifact, Artifacts
<1>4. /\ copier' \in [pc : {"upload", "compare"}, stamp : Times, sent : 0 .. 2, expected : Files, started : Times]
      /\ copier'.stamp = copier.stamp /\ copier'.expected = copier.expected
  <2>1. CASE copier.sent = 2
    BY <1>1, <1>2, <2>1
  <2>2. CASE copier.sent # 2
    <3>1. copier.sent + 1 \in 0 .. 2 /\ copier' = [copier EXCEPT !.sent = copier.sent + 1]
      BY <1>1, <1>2, <2>2
    <3>2. QED
      BY <1>2, <3>1
  <2>3. QED BY <2>1, <2>2
<1> HIDE DEF stamp, artifact
<1>5. /\ UNCHANGED <<clock, archiving, archiver, names, verified, stagedAt, drilling, drill, rotten>>
      /\ clock' \in Times /\ clock <= clock' /\ Manifests' = Manifests
  BY <1>1, CopierFrame
<1>6. PICK content \in {verified[stamp][artifact], Damaged(stamp, artifact)} :
           /\ remote' = [remote EXCEPT ![stamp][artifact] = content]
           /\ remote[stamp][artifact] \in {None, content}
  BY <1>1
<1>7. content \in From(stamp, artifact)
  BY <1>3, <1>6 DEF ArchiveInv, FilesHaveOrigins, From
<1>8. content \in Files /\ content \in Contents(stamp) \cup {None}
  BY <1>3, <1>7, ContentsAreFiles DEF From, Files, Contents
<1>9. /\ remote' \in [Times -> [Artifacts -> Files]]
      /\ remote'[stamp][artifact] = content
      /\ \A s \in Times : \A a \in Artifacts :
            <<s, a>> # <<stamp, artifact>> => remote'[s][a] = remote[s][a]
  <2>1. remote \in [Times -> [Artifacts -> Files]]
    BY DEF ArchiveInv, Shapes
  <2>2. QED
    BY <1>3, <1>6, <1>8, <2>1
<1>10. FilesHaveOrigins'
  BY <1>5, <1>7, <1>9 DEF ArchiveInv, FilesHaveOrigins
<1>11. TypeOK'
  <2>1. \A s \in Times : \A a \in Artifacts :
            {verified[s][a], remote'[s][a]} \subseteq Contents(s) \cup {None}
    BY <1>8, <1>9 DEF ArchiveInv, TypeOK
  <2>2. QED
    BY <1>4, <1>5, <2>1 DEF ArchiveInv, TypeOK
<1>12. Shapes'
  BY <1>1, <1>4, <1>5, <1>9 DEF ArchiveInv, Shapes
<1>13. \A p \in Places : ReceiptTimes(p)' = ReceiptTimes(p)
  BY <1>1 DEF ReceiptTimes
<1>14. ReceiptsNameExports'
  <2> SUFFICES ASSUME NEW p \in Places, NEW t \in ReceiptTimes(p)
               PROVE  Named(receipts[p][t])'
    BY <1>1, <1>13 DEF ReceiptsNameExports, Named
  <2>1. Named(receipts[p][t]) /\ receipts[p][t].stamp \in Times
    BY DEF ArchiveInv, ReceiptsNameExports, ReceiptsArePast, Manifests, Named
  <2>2. \A a \in Artifacts : remote'[receipts[p][t].stamp][a] = remote[receipts[p][t].stamp][a]
    BY <1>6, <1>9, <2>1 DEF Named
  <2>3. QED
    BY <1>1, <1>5, <2>1, <2>2 DEF Named
<1>15. CopierProgress'
  BY <1>1, <1>4, <1>5, <1>13 DEF ArchiveInv, CopierProgress
<1>16. ReceiptsArePast' /\ LatestReceiptsNameNewestCopies'
  BY <1>1, <1>5, <1>13 DEF ArchiveInv, ReceiptsArePast, LatestReceiptsNameNewestCopies
<1>17. QED
  BY <1>5, <1>10, <1>11, <1>12, <1>14, <1>15, <1>16, ArchivingStays, DrillingStays DEF ArchiveInv

\* A receipt is of what was read back, and of an archive at least as new as
\* those of all receipts before it.
LEMMA WriteReceiptStep ==
    ASSUME ArchiveInv, WriteReceipt
    PROVE  ArchiveInv'
<1> DEFINE stamp == copier.stamp
           receipt == [stamp |-> stamp, sha256 |-> copier.expected]
<1>1. /\ CopierOnly /\ UNCHANGED remote /\ copier.pc = "compare" /\ ReadBack
      /\ receipts' = [receipts EXCEPT !["local"][clock] = receipt]
      /\ copier' = [pc |-> "receipt", at |-> clock]
  BY DEF WriteReceipt
<1>2. stamp \in Times /\ copier.expected \in Files
  BY <1>1 DEF ArchiveInv, Shapes, Idle
<1>3. /\ stamp \in Manifests /\ copier.expected = Export(stamp)
      /\ \A p \in Places : \A t \in ReceiptTimes(p) : receipts[p][t].stamp <= stamp
  BY <1>1 DEF ArchiveInv, CopierProgress
<1>4. Named(receipt)
  <2>1. remote[stamp]["archive"] = Export(stamp) /\ Export(stamp) # None
    BY <1>1, <1>2, <1>3, NoneIsNoValue DEF ReadBack
  <2>2. \A a \in {"checksum", "manifest"} :
           remote[stamp][a] # None /\ (remote[stamp][a] = Export(stamp) \/ <<"local", stamp, a>> \in rotten)
    BY <1>1, <1>3 DEF ReadBack, ArchiveInv, ManifestsComplete, Artifacts
  <2>3. receipt.stamp = stamp /\ receipt.sha256 = Export(stamp)
    BY <1>3
  <2> HIDE DEF receipt, stamp
  <2>4. QED
    BY <2>1, <2>2, <2>3 DEF Named, Artifacts
<1>5. UNCHANGED <<clock, rotten>> /\ Manifests' = Manifests
  BY <1>1, CopierFrame
<1>6. clock \in Times /\ Times \subseteq Nat
  BY DEF ArchiveInv, TypeOK, Times
<1>7. /\ receipts' \in [Places -> [Times -> {None} \cup [stamp : Times, sha256 : Files]]]
      /\ receipts'["local"][clock] = receipt
      /\ \A p \in Places : \A t \in Times :
            <<p, t>> # <<"local", clock>> => receipts'[p][t] = receipts[p][t]
  <2>1. receipts \in [Places -> [Times -> {None} \cup [stamp : Times, sha256 : Files]]]
    BY DEF ArchiveInv, Shapes
  <2>2. receipt \in [stamp : Times, sha256 : Files] /\ "local" \in Places
    BY <1>2 DEF Places
  <2> HIDE DEF receipt, stamp
  <2>3. QED
    BY <1>1, <1>6, <2>1, <2>2
<1>8. receipt.stamp = stamp /\ receipt.sha256 = Export(stamp)
  BY <1>3
<1> HIDE DEF receipt, stamp
<1>9. \A p \in Places : \A t \in ReceiptTimes(p)' :
         \/ p = "local" /\ t = clock /\ receipts'[p][t] = receipt
         \/ t \in ReceiptTimes(p) /\ receipts'[p][t] = receipts[p][t]
  BY <1>7 DEF ReceiptTimes
<1>10. ReceiptsArePast'
  <2> SUFFICES ASSUME NEW p \in Places, NEW t \in ReceiptTimes(p)'
               PROVE  t <= clock /\ receipts'[p][t].stamp \in Manifests
    BY <1>5 DEF ReceiptsArePast
  <2>1. QED
    BY <1>3, <1>6, <1>8, <1>9 DEF ArchiveInv, ReceiptsArePast
<1>11. ReceiptsNameExports'
  <2> SUFFICES ASSUME NEW p \in Places, NEW t \in ReceiptTimes(p)'
               PROVE  Named(receipts'[p][t])
    BY <1>1, <1>5 DEF ReceiptsNameExports, Named
  <2>1. \A u \in ReceiptTimes(p) : Named(receipts[p][u])
    BY DEF ArchiveInv, ReceiptsNameExports, Named
  <2>2. QED
    BY <1>4, <1>9, <2>1
<1>12. \A p \in Places : \A t \in ReceiptTimes(p)' : t <= clock /\ receipts'[p][t].stamp <= stamp
  BY <1>2, <1>3, <1>6, <1>8, <1>9 DEF ArchiveInv, ReceiptsArePast
<1>13. LatestReceiptsNameNewestCopies'
  <2> SUFFICES ASSUME NEW p \in Places, NEW t \in ReceiptTimes(p)', NEW u \in ReceiptTimes(p)', t <= u
               PROVE  receipts'[p][t].stamp <= receipts'[p][u].stamp
    BY DEF LatestReceiptsNameNewestCopies
  <2>1. CASE p = "local" /\ u = clock
    BY <1>7, <1>8, <1>12, <2>1
  <2>2. CASE ~(p = "local" /\ u = clock)
    <3>1. u \in ReceiptTimes(p) /\ receipts'[p][u] = receipts[p][u] /\ u <= clock /\ u \in Nat /\ t \in Nat
      BY <1>6, <1>9, <1>12, <2>2 DEF ReceiptTimes
    <3>2. ~(p = "local" /\ t = clock)
      BY <1>6, <2>2, <3>1
    <3>3. t \in ReceiptTimes(p) /\ receipts'[p][t] = receipts[p][t]
      BY <1>9, <3>2
    <3>4. QED
      BY <3>1, <3>3 DEF ArchiveInv, LatestReceiptsNameNewestCopies
  <2>3. QED BY <2>1, <2>2
<1>14. CopierProgress'
  <2>1. copier'.pc = "receipt" /\ copier'.at = clock
    BY <1>1
  <2>2. QED
    BY <1>7, <1>8, <1>12, <2>1 DEF CopierProgress
<1>15. copier' \in [pc : {"receipt"}, at : Times]
  BY <1>1, <1>6
<1>16. QED
  BY <1>1, <1>7, <1>10, <1>11, <1>13, <1>14, <1>15, CopierStep

LEMMA CopyReceiptStep ==
    ASSUME ArchiveInv, CopyReceipt
    PROVE  ArchiveInv'
<1> DEFINE at == copier.at
           receipt == receipts["local"][at]
<1>1. /\ CopierOnly /\ UNCHANGED remote /\ copier.pc = "receipt"
      /\ receipts' = [receipts EXCEPT !["remote"][at] = receipt]
      /\ copier' = Idle
  BY DEF CopyReceipt
<1>2. at \in Times /\ Times \subseteq Nat
  BY <1>1 DEF ArchiveInv, Shapes, Idle, Times
<1>3. \A p \in Places : \A t \in ReceiptTimes(p) : t <= at /\ receipts[p][t].stamp <= receipt.stamp
  BY <1>1 DEF ArchiveInv, CopierProgress
<1>4. UNCHANGED <<clock, rotten>> /\ Manifests' = Manifests
  BY <1>1, CopierFrame
<1>5. "local" \in Places /\ "remote" \in Places /\ "local" # "remote"
  BY DEF Places
<1>6. /\ receipts' \in [Places -> [Times -> {None} \cup [stamp : Times, sha256 : Files]]]
      /\ receipts'["remote"][at] = receipt
      /\ \A p \in Places : \A t \in Times :
            <<p, t>> # <<"remote", at>> => receipts'[p][t] = receipts[p][t]
  <2>1. receipts \in [Places -> [Times -> {None} \cup [stamp : Times, sha256 : Files]]]
    BY DEF ArchiveInv, Shapes
  <2>2. receipt \in {None} \cup [stamp : Times, sha256 : Files]
    BY <1>2, <1>5, <2>1
  <2> HIDE DEF receipt, at
  <2>3. QED
    BY <1>1, <1>2, <1>5, <2>1, <2>2
<1>7. receipt # None => at \in ReceiptTimes("local")
  BY <1>2 DEF ReceiptTimes
<1>8. \A p \in Places : \A t \in ReceiptTimes(p)' :
         \/ p = "remote" /\ t = at /\ receipts'[p][t] = receipts["local"][at] /\ at \in ReceiptTimes("local")
         \/ t \in ReceiptTimes(p) /\ receipts'[p][t] = receipts[p][t]
  BY <1>6, <1>7 DEF ReceiptTimes
<1>9. ReceiptsArePast'
  <2> SUFFICES ASSUME NEW p \in Places, NEW t \in ReceiptTimes(p)'
               PROVE  t <= clock /\ receipts'[p][t].stamp \in Manifests
    BY <1>4 DEF ReceiptsArePast
  <2>1. QED
    BY <1>5, <1>8 DEF ArchiveInv, ReceiptsArePast
<1>10. ReceiptsNameExports'
  <2> SUFFICES ASSUME NEW p \in Places, NEW t \in ReceiptTimes(p)'
               PROVE  Named(receipts'[p][t])
    BY <1>1, <1>4 DEF ReceiptsNameExports, Named
  <2>1. \A q \in Places : \A u \in ReceiptTimes(q) : Named(receipts[q][u])
    BY DEF ArchiveInv, ReceiptsNameExports, Named
  <2>2. QED
    BY <1>5, <1>8, <2>1
<1> HIDE DEF receipt, at
<1>11. LatestReceiptsNameNewestCopies'
  <2> SUFFICES ASSUME NEW p \in Places, NEW t \in ReceiptTimes(p)', NEW u \in ReceiptTimes(p)', t <= u
               PROVE  receipts'[p][t].stamp <= receipts'[p][u].stamp
    BY DEF LatestReceiptsNameNewestCopies
  <2>1. t \in Nat /\ u \in Nat
    BY <1>2 DEF ReceiptTimes
  <2>2. CASE p = "remote" /\ u = at
    <3>1. receipts'[p][u] = receipt /\ receipt # None
      BY <1>2, <1>6, <2>2 DEF ReceiptTimes
    <3>2. receipt.stamp \in Times
      <4>1. receipt \in [stamp : Times, sha256 : Files]
        BY <1>2, <1>5, <3>1 DEF receipt, ArchiveInv, Shapes
      <4>2. QED BY <4>1
    <3>3. receipts'[p][t] = receipt \/ (t \in ReceiptTimes(p) /\ receipts'[p][t] = receipts[p][t])
      BY <1>8 DEF receipt
    <3>4. receipt.stamp <= receipt.stamp
      <4>1. receipt.stamp \in Nat
        BY <3>2 DEF Times
      <4>2. QED BY <4>1
    <3>5. t \in ReceiptTimes(p) => receipts[p][t].stamp <= receipt.stamp
      BY <1>3
    <3>6. QED
      BY <3>1, <3>3, <3>4, <3>5
  <2>3. CASE ~(p = "remote" /\ u = at)
    <3>1. u \in ReceiptTimes(p) /\ receipts'[p][u] = receipts[p][u] /\ u <= at
      BY <1>3, <1>8, <2>3
    <3>2. ~(p = "remote" /\ t = at)
      BY <1>2, <2>1, <2>3, <3>1
    <3>3. t \in ReceiptTimes(p) /\ receipts'[p][t] = receipts[p][t]
      BY <1>8, <3>2
    <3>4. QED
      BY <3>1, <3>3 DEF ArchiveInv, LatestReceiptsNameNewestCopies
  <2>4. QED BY <2>2, <2>3
<1>12. CopierProgress'
  BY <1>1 DEF CopierProgress, Idle
<1>13. QED
  BY <1>1, <1>6, <1>9, <1>10, <1>11, <1>12, CopierStep

LEMMA CopyStopsStep ==
    ASSUME ArchiveInv, CopyStops
    PROVE  ArchiveInv'
<1>1. CopierOnly /\ copier' = Idle /\ UNCHANGED <<remote, receipts>>
  BY DEF CopyStops
<1>2. UNCHANGED <<clock, rotten>> /\ Manifests' = Manifests
  BY <1>1, CopierFrame
<1>3. \A p \in Places : ReceiptTimes(p)' = ReceiptTimes(p)
  BY <1>1 DEF ReceiptTimes
<1>4. ReceiptsArePast' /\ ReceiptsNameExports' /\ LatestReceiptsNameNewestCopies'
  BY <1>1, <1>2, <1>3 DEF ArchiveInv, ReceiptsArePast, ReceiptsNameExports, LatestReceiptsNameNewestCopies
<1>5. CopierProgress'
  BY <1>1 DEF CopierProgress, Idle
<1>6. receipts' \in [Places -> [Times -> {None} \cup [stamp : Times, sha256 : Files]]]
  BY <1>1 DEF ArchiveInv, Shapes
<1>7. QED
  BY <1>1, <1>4, <1>5, <1>6, CopierStep

-----------------------------------------------------------------------------
(* Steps of restore-drill.sh.                                               *)

Drills == {Idle} \cup [pc : {"download"}, stamp : Times, sha256 : Files,
                       got : [Artifacts -> Files], started : Times]

LEMMA DrillStep ==
    ASSUME ArchiveInv, DrillOnly, drill' \in Drills, DrillProgress', DrillsRestoreExports'
    PROVE  ArchiveInv'
<1>1. UNCHANGED <<clock, archiving, archiver, names, verified, stagedAt, copying, copier, remote, receipts, rotten>>
  BY DEF DrillOnly, archiving, copying
<1>2. clock' \in Times /\ clock <= clock' /\ Manifests \subseteq Manifests'
  BY <1>1 DEF ArchiveInv, TypeOK, Times, Manifests
<1>3. TypeOK' /\ FilesHaveOrigins'
  BY <1>1, <1>2, FilesStay DEF ArchiveInv, TypeOK
<1>4. Shapes'
  BY <1>1 DEF ArchiveInv, Shapes, Drills
<1>5. QED
  BY <1>1, <1>2, <1>3, <1>4, ArchivingStays, CopyingStays DEF ArchiveInv

LEMMA BeginStep ==
    ASSUME ArchiveInv, NEW stamp \in Times, NEW sha256 \in Files, Begin(stamp, sha256)
    PROVE  ArchiveInv'
<1>1. /\ drill' = [pc |-> "download", stamp |-> stamp, sha256 |-> sha256, got |-> NoFiles, started |-> clock]
      /\ UNCHANGED evidence /\ DrillOnly
  BY DEF Begin
<1>2. drill' \in Drills
  <2>1. NoFiles \in [Artifacts -> Files] /\ clock \in Times
    BY DEF NoFiles, Files, ArchiveInv, TypeOK
  <2>2. QED
    BY <1>1, <2>1 DEF Drills
<1>3. DrillProgress'
  BY <1>1 DEF DrillProgress, NoFiles, From
<1>4. DrillsRestoreExports'
  BY <1>1 DEF ArchiveInv, DrillsRestoreExports
<1>5. QED
  BY <1>1, <1>2, <1>3, <1>4, DrillStep

\* The newest receipt is a receipt.
LEMMA SelectReceiptStep ==
    ASSUME ArchiveInv, SelectReceipt
    PROVE  ArchiveInv'
<1>1. PICK place \in Places :
         /\ ReceiptTimes(place) # {}
         /\ Begin(receipts[place][Max(ReceiptTimes(place))].stamp,
                  receipts[place][Max(ReceiptTimes(place))].sha256)
  BY DEF SelectReceipt, Places
<1>2. Max(ReceiptTimes(place)) \in ReceiptTimes(place)
  BY <1>1, MaxIsLargest DEF ReceiptTimes
<1> DEFINE t == Max(ReceiptTimes(place))
<1> HIDE DEF t
<1>3. receipts[place][t] \in [stamp : Times, sha256 : Files]
  BY <1>2 DEF ReceiptTimes, ArchiveInv, Shapes, t
<1>4. receipts[place][t].stamp \in Times /\ receipts[place][t].sha256 \in Files
  BY <1>3
<1>5. QED
  BY <1>1, <1>4, BeginStep DEF t

LEMMA DownloadStep ==
    ASSUME ArchiveInv, Download
    PROVE  ArchiveInv'
<1> DEFINE missing == {n \in 1 .. 3 : drill.got[Artifact(n)] = None}
           artifact == Artifact(Min(missing))
<1>1. /\ drill.pc = "download" /\ missing # {}
      /\ drill' = [drill EXCEPT !.got[artifact] = remote[drill.stamp][artifact]]
      /\ UNCHANGED evidence /\ DrillOnly
  BY DEF Download
<1>2. drill \in [pc : {"download"}, stamp : Times, sha256 : Files, got : [Artifacts -> Files], started : Times]
      /\ drill # Idle
  BY <1>1 DEF ArchiveInv, Shapes, Idle
<1>3. artifact \in Artifacts
  <2>1. \E m \in missing : \A n \in missing : m <= n
    <3>1. missing \subseteq {1, 2, 3}
      OBVIOUS
    <3> HIDE DEF missing
    <3>2. CASE 1 \in missing
      BY <3>1, <3>2
    <3>3. CASE 1 \notin missing /\ 2 \in missing
      BY <3>1, <3>3
    <3>4. CASE 1 \notin missing /\ 2 \notin missing
      BY <1>1, <3>1, <3>4
    <3>5. QED BY <3>2, <3>3, <3>4
  <2>2. Min(missing) \in missing
    BY <2>1 DEF Min
  <2>3. Min(missing) \in 1 .. 3
    BY <2>2
  <2> HIDE DEF missing
  <2>4. QED BY <2>3 DEF Artifact, Artifacts
<1> DEFINE content == remote[drill.stamp][artifact]
<1>4. content \in Files /\ content \in From(drill.stamp, artifact)
  <2>1. drill.stamp \in Times /\ remote \in [Times -> [Artifacts -> Files]]
    BY <1>2 DEF ArchiveInv, Shapes
  <2>2. QED
    BY <1>3, <2>1 DEF ArchiveInv, FilesHaveOrigins
<1>5. drill' = [drill EXCEPT !.got[artifact] = content]
  BY <1>1
<1> HIDE DEF missing, artifact, content
<1>6. drill' \in Drills
  BY <1>2, <1>3, <1>4, <1>5 DEF Drills
<1>7. DrillProgress'
  <2>1. /\ drill'.stamp = drill.stamp /\ drill'.got[artifact] = content
        /\ \A a \in Artifacts \ {artifact} : drill'.got[a] = drill.got[a]
    BY <1>2, <1>3, <1>5
  <2>2. QED
    BY <1>2, <1>4, <2>1 DEF ArchiveInv, DrillProgress
<1>8. DrillsRestoreExports'
  BY <1>1 DEF ArchiveInv, DrillsRestoreExports
<1>9. QED
  BY <1>1, <1>6, <1>7, <1>8, DrillStep

\* Three files with one content are not damaged.
LEMMA SucceedStep ==
    ASSUME ArchiveInv, Succeed
    PROVE  ArchiveInv'
<1>1. /\ drill.pc = "download" /\ None \notin {drill.got[a] : a \in Artifacts} /\ Matches(drill)
      /\ drill' = Idle /\ DrillOnly
      /\ evidence' = [status |-> "success", stamp |-> drill.stamp, restored |-> drill.got["archive"]]
  BY DEF Succeed, Finish
<1>2. drill # Idle /\ drill.stamp \in Times
  BY <1>1 DEF ArchiveInv, Shapes, Idle
<1>3. drill.got["archive"] = drill.got["checksum"] /\ drill.got["archive"] # None
  BY <1>1 DEF Matches, Artifacts
<1>4. drill.got["archive"] = Export(drill.stamp)
  BY <1>2, <1>3, DamageShows DEF ArchiveInv, DrillProgress, Artifacts
<1>5. DrillsRestoreExports' /\ DrillProgress' /\ drill' \in Drills
  BY <1>1, <1>4 DEF DrillsRestoreExports, DrillProgress, Drills
<1>6. QED
  BY <1>1, <1>5, DrillStep

LEMMA FailStep ==
    ASSUME ArchiveInv, Fail \/ DrillDies
    PROVE  ArchiveInv'
<1>1. /\ drill' = Idle /\ DrillOnly
      /\ evidence' = evidence \/ evidence'.status = "failed"
  BY DEF Fail, DrillDies, Finish
<1>2. DrillsRestoreExports' /\ DrillProgress' /\ drill' \in Drills
  BY <1>1 DEF ArchiveInv, DrillsRestoreExports, DrillProgress, Drills
<1>3. QED
  BY <1>1, <1>2, DrillStep

-----------------------------------------------------------------------------
(* The theorems.                                                            *)

LEMMA ArchiveStep == ArchiveInv /\ [Next]_vars => ArchiveInv'
<1> SUFFICES ASSUME ArchiveInv, [Next]_vars PROVE ArchiveInv'
  OBVIOUS
<1>1. ASSUME NEW stamp \in Times, SelectArchive(stamp) PROVE ArchiveInv'
  <2>1. None \in Files /\ Begin(stamp, None)
    BY <1>1 DEF SelectArchive, Files
  <2>2. QED BY <2>1, BeginStep
<1>2. CASE UNCHANGED vars
  <2>1. UNCHANGED <<clock, archiving, archiver, names, verified, stagedAt, copying, copier, remote, receipts,
                    drilling, drill, evidence, rotten>>
    BY <1>2 DEF vars, archiving, copying, drilling
  <2>2. DrillOnly /\ DrillProgress' /\ DrillsRestoreExports' /\ drill' \in Drills
    BY <1>2, <2>1, DrillingStays DEF DrillOnly, vars, ArchiveInv, Shapes, Drills
  <2>3. QED BY <2>2, DrillStep
<1>3. QED
  BY <1>1, <1>2, StartArchiveStep, StageStep, MoveStep, ArchiveStopsStep, RotStep, SelectStep, UploadStep,
     WriteReceiptStep, CopyReceiptStep, CopyStopsStep, SelectReceiptStep, DownloadStep, SucceedStep,
     FailStep, TickStep DEF Next

\* The invariant holds wherever the jobs are stopped.
THEOREM ArchiveInvariant == Spec => []ArchiveInv
<1>1. QED BY ArchiveInit, ArchiveStep, PTL DEF Spec

\* A verified manifest has its archive and its checksum, and each of the three
\* is of its own export or has rotted.  (archive.sh)
THEOREM ManifestsAreCompletionMarkers == Spec => []ManifestsComplete
<1>1. ArchiveInv => ManifestsComplete
  BY DEF ArchiveInv
<1>2. QED BY <1>1, ArchiveInvariant, PTL

\* A receipt has the checksum of the export, and its archive was read back as
\* exported; the two files compared with local ones are as exported or damage
\* to those was copied, unless they rotted since.  (off-provider-copy.sh)
THEOREM ReceiptsAreOfExports == Spec => []ReceiptsNameExports
<1>1. ArchiveInv => ReceiptsNameExports
  BY DEF ArchiveInv
<1>2. QED BY <1>1, ArchiveInvariant, PTL

\* Receipts never go back to an older archive.
THEOREM ReceiptsAdvance == Spec => []LatestReceiptsNameNewestCopies
<1>1. ArchiveInv => LatestReceiptsNameNewestCopies
  BY DEF ArchiveInv
<1>2. QED BY <1>1, ArchiveInvariant, PTL

\* A drill that reports success restored the export.
THEOREM SuccessfulDrillsRestoredExports == Spec => []DrillsRestoreExports
<1>1. ArchiveInv => DrillsRestoreExports
  BY DEF ArchiveInv
<1>2. QED BY <1>1, ArchiveInvariant, PTL

=============================================================================
