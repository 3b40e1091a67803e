------------------------- MODULE OpenMigrate_proofs -------------------------
(***************************************************************************)
(* Theorems about OpenMigrate, for every number of processes, sources and  *)
(* crashes: a file is whole or new, and the first opener names its source. *)
(***************************************************************************)
EXTENDS OpenMigrate, TLAPS

-----------------------------------------------------------------------------
(* The inductive invariant. *)

\* What a process that is past the constructor's first line relies on.
AttemptsKnowTheFile ==
    /\ file.source # None => file.exists
    /\ \A p \in Processes :
          /\ process[p].pc # "closed" => file.exists /\ process[p].source \in Sources
          /\ process[p].pc = "schema" => file.version = SCHEMA_VERSION

\* Nobody else writes while a process migrates: its draft is the file as it
\* is, and then the first schema of a file that had none.
TransactionsHoldTheFile ==
    \A p \in Processes :
        /\ process[p].pc = "migrate" => draft = file
        /\ process[p].pc = "commit" =>
              /\ file.source = None
              /\ draft = File(TRUE, SCHEMA_VERSION, TRUE, process[p].source)

OpenInv == TypeOK /\ FilesAreWhole /\ AttemptsKnowTheFile /\ TransactionsHoldTheFile

-----------------------------------------------------------------------------
LEMMA InitHolds == Init => OpenInv
<1> SUFFICES ASSUME Init PROVE OpenInv
  OBVIOUS
<1>1. \A p \in Processes : process[p] = Absent /\ Absent.pc = "closed"
  BY DEF Init, Absent
<1>2. \/ file = NoFile
      \/ file = EmptyFile
      \/ \E source \in Sources : file = File(TRUE, SCHEMA_VERSION + 1, TRUE, source)
  BY DEF Init, NewerFiles
<1>3. TypeOK
  <2>1. file \in [exists : BOOLEAN, version : 0 .. 2, tables : BOOLEAN, source : Sources \cup {None}]
    <3>1. 0 \in 0 .. 2 /\ SCHEMA_VERSION + 1 \in 0 .. 2
      BY DEF SCHEMA_VERSION
    <3>2. \A exists, tables \in BOOLEAN, version \in 0 .. 2, source \in Sources \cup {None} :
             File(exists, version, tables, source) \in
                [exists : BOOLEAN, version : 0 .. 2, tables : BOOLEAN, source : Sources \cup {None}]
      BY DEF File
    <3>3. CASE file = NoFile
      BY <3>1, <3>2, <3>3 DEF NoFile
    <3>4. CASE file = EmptyFile
      BY <3>1, <3>2, <3>4 DEF EmptyFile
    <3>5. CASE \E source \in Sources : file = File(TRUE, SCHEMA_VERSION + 1, TRUE, source)
      <4>1. PICK source \in Sources : file = File(TRUE, SCHEMA_VERSION + 1, TRUE, source)
        BY <3>5
      <4>2. source \in Sources \cup {None}
        OBVIOUS
      <4> QED
        BY <3>1, <3>2, <4>1, <4>2
    <3> QED
      BY <1>2, <3>3, <3>4, <3>5
  <2>2. process \in [Processes -> [pc : {"closed", "version", "schema", "begin", "migrate", "commit", "open"},
                                   readonly : BOOLEAN, source : Sources \cup {None}]]
    BY DEF Init, Absent
  <2>3. \A p \in Processes : writer # p /\ process[p].pc \notin {"migrate", "commit"}
    BY <1>1, NoneIsNobody DEF Init
  <2> QED
    BY <2>1, <2>2, <2>3 DEF Init, TypeOK, SCHEMA_VERSION
<1>4. FilesAreWhole
  <2>1. \A source \in Sources : source # None
    BY NoneIsNobody
  <2>2. (file.version = 0 /\ ~file.tables) \/ (file.version = 2 /\ file.tables /\ file.source # None)
    BY <1>2, <2>1 DEF NoFile, EmptyFile, File, SCHEMA_VERSION
  <2> QED
    BY <1>1, <2>2 DEF FilesAreWhole, Whole
<1>5. AttemptsKnowTheFile /\ TransactionsHoldTheFile
  BY <1>1, <1>2 DEF AttemptsKnowTheFile, TransactionsHoldTheFile, NoFile, EmptyFile, File
<1> QED
  BY <1>3, <1>4, <1>5 DEF OpenInv

(* One lemma per kind of step. *)

LEMMA ConstructKeeps ==
    ASSUME OpenInv, NEW p \in Processes, NEW readonly \in BOOLEAN, NEW source \in Sources,
           Construct(p, readonly, source)
    PROVE  OpenInv'
<1> USE DEF OpenInv
<1>1. TypeOK'
  <2>1. CASE Throw(p, "access") /\ UNCHANGED file
    BY <2>1 DEF Construct, Throw, Absent, TypeOK
  <2>2. CASE /\ process' = [process EXCEPT ![p] = [pc |-> "version", readonly |-> readonly, source |-> source]]
             /\ error' = [error EXCEPT ![p] = None]
             /\ file' = [file EXCEPT !.exists = TRUE]
    BY <2>2 DEF Construct, TypeOK
  <2> QED
    BY <2>1, <2>2 DEF Construct
<1>2. FilesAreWhole'
  BY DEF Construct, Throw, Absent, TypeOK, FilesAreWhole, Whole
<1>3. AttemptsKnowTheFile'
  BY DEF Construct, Throw, Absent, TypeOK, AttemptsKnowTheFile
<1>4. TransactionsHoldTheFile'
  <2>1. ASSUME NEW q \in Processes, process'[q].pc \in {"migrate", "commit"}
        PROVE  process'[q] = process[q] /\ file' = file /\ draft' = draft
    <3>1. q # p /\ process'[q] = process[q]
      BY <2>1 DEF Construct, Throw, Absent, TypeOK
    <3>2. file.exists
      BY <2>1, <3>1 DEF AttemptsKnowTheFile
    <3>3. file = [file EXCEPT !.exists = TRUE]
      BY <3>2 DEF TypeOK
    <3> QED
      BY <3>1, <3>3 DEF Construct
  <2> QED
    BY <2>1 DEF TransactionsHoldTheFile
<1> QED
  BY <1>1, <1>2, <1>3, <1>4

\* A process that gives up, is killed or closes is absent; what it wrote in a
\* transaction is forgotten.
LEMMA LeavingKeeps ==
    ASSUME OpenInv, NEW p \in Processes, process' = [process EXCEPT ![p] = Absent],
           UNCHANGED <<file, draft>>, writer' = (IF writer = p THEN None ELSE writer),
           error' \in [Processes -> {None, "access", "integrity"}], crashes' \in Nat
    PROVE  OpenInv'
<1> USE DEF OpenInv, Absent
<1>1. TypeOK'
  BY NoneIsNobody DEF TypeOK
<1>2. FilesAreWhole'
  BY DEF TypeOK, FilesAreWhole, Whole
<1>3. AttemptsKnowTheFile'
  BY DEF TypeOK, AttemptsKnowTheFile
<1>4. TransactionsHoldTheFile'
  BY DEF TypeOK, TransactionsHoldTheFile
<1> QED
  BY <1>1, <1>2, <1>3, <1>4

LEMMA ReadVersionKeeps ==
    ASSUME OpenInv, NEW p \in Processes, ReadVersion(p)
    PROVE  OpenInv'
<1> USE DEF OpenInv
<1>1. CASE Throw(p, "integrity")
  BY <1>1, NoneIsNobody, LeavingKeeps DEF ReadVersion, Throw, TypeOK
<1>2. CASE GoTo(p, "schema") /\ file.version = SCHEMA_VERSION /\ UNCHANGED error
  <2>1. TypeOK'
    BY <1>2 DEF ReadVersion, GoTo, TypeOK
  <2>2. FilesAreWhole' /\ AttemptsKnowTheFile' /\ TransactionsHoldTheFile'
    BY <1>2 DEF ReadVersion, GoTo, TypeOK, FilesAreWhole, Whole, AttemptsKnowTheFile, TransactionsHoldTheFile
  <2> QED
    BY <2>1, <2>2
<1>3. CASE GoTo(p, "begin") /\ UNCHANGED error
  <2>1. TypeOK'
    BY <1>3 DEF ReadVersion, GoTo, TypeOK
  <2>2. FilesAreWhole' /\ AttemptsKnowTheFile' /\ TransactionsHoldTheFile'
    BY <1>3 DEF ReadVersion, GoTo, TypeOK, FilesAreWhole, Whole, AttemptsKnowTheFile, TransactionsHoldTheFile
  <2> QED
    BY <2>1, <2>2
<1> QED
  BY <1>1, <1>2, <1>3 DEF ReadVersion

LEMMA CheckSchemaKeeps ==
    ASSUME OpenInv, NEW p \in Processes, CheckSchema(p)
    PROVE  OpenInv'
<1> USE DEF OpenInv
<1>1. CASE ~Whole(file)
  BY <1>1, NoneIsNobody, LeavingKeeps DEF CheckSchema, Throw, TypeOK
<1>2. CASE Whole(file)
  <2>1. TypeOK'
    BY <1>2 DEF CheckSchema, GoTo, TypeOK
  <2>2. file.version = SCHEMA_VERSION
    BY DEF CheckSchema, AttemptsKnowTheFile
  <2>3. FilesAreWhole'
    <3>1. \A q \in Processes : process'[q].pc = "open" => q = p \/ process[q].pc = "open"
      BY <1>2 DEF CheckSchema, GoTo, TypeOK
    <3> QED
      BY <1>2, <2>2, <3>1 DEF CheckSchema, FilesAreWhole, Whole
  <2>4. AttemptsKnowTheFile' /\ TransactionsHoldTheFile'
    <3>1. /\ process'[p].pc = "open" /\ process'[p].source = process[p].source
          /\ \A q \in Processes : q # p => process'[q] = process[q]
      BY <1>2 DEF CheckSchema, GoTo, TypeOK
    <3>2. process[p].pc = "schema" /\ UNCHANGED <<file, draft>>
      BY DEF CheckSchema
    <3>3. AttemptsKnowTheFile'
      BY <3>1, <3>2 DEF AttemptsKnowTheFile
    <3> QED
      BY <3>1, <3>2, <3>3 DEF TransactionsHoldTheFile
  <2> QED
    BY <2>1, <2>3, <2>4
<1> QED
  BY <1>1, <1>2

LEMMA BeginKeeps ==
    ASSUME OpenInv, NEW p \in Processes, BeginImmediate(p)
    PROVE  OpenInv'
<1> USE DEF OpenInv, BeginImmediate, GoTo
<1>1. TypeOK'
  BY NoneIsNobody DEF TypeOK
<1>2. FilesAreWhole' /\ AttemptsKnowTheFile'
  BY DEF TypeOK, FilesAreWhole, Whole, AttemptsKnowTheFile
<1>3. TransactionsHoldTheFile'
  <2>1. \A q \in Processes : process[q].pc \notin {"migrate", "commit"}
    BY NoneIsNobody DEF TypeOK
  <2> QED
    BY <2>1 DEF TypeOK, TransactionsHoldTheFile
<1> QED
  BY <1>1, <1>2, <1>3

LEMMA MigrateKeeps ==
    ASSUME OpenInv, NEW p \in Processes, Migrate(p)
    PROVE  OpenInv'
<1> USE DEF OpenInv
<1>1. CASE Throw(p, "integrity") /\ Rollback(p)
  BY <1>1, NoneIsNobody, LeavingKeeps DEF Migrate, Throw, Rollback, TypeOK
<1>2. CASE /\ draft.source = None
           /\ draft' = File(TRUE, SCHEMA_VERSION, TRUE, process[p].source)
           /\ GoTo(p, "commit")
           /\ UNCHANGED <<file, writer, error>>
  <2>1. TypeOK'
    BY <1>2 DEF Migrate, GoTo, TypeOK
  <2>2. FilesAreWhole' /\ AttemptsKnowTheFile'
    BY <1>2 DEF Migrate, GoTo, TypeOK, FilesAreWhole, Whole, AttemptsKnowTheFile
  <2>3. draft = file /\ writer = p
    BY DEF Migrate, TypeOK, TransactionsHoldTheFile
  <2>4. \A q \in Processes : q # p => process[q].pc \notin {"migrate", "commit"}
    BY <2>3 DEF TypeOK
  <2>5. TransactionsHoldTheFile'
    BY <1>2, <2>3, <2>4 DEF Migrate, GoTo, TypeOK, TransactionsHoldTheFile, File
  <2> QED
    BY <2>1, <2>2, <2>5
<1> QED
  BY <1>1, <1>2 DEF Migrate

LEMMA CommitKeeps ==
    ASSUME OpenInv, NEW p \in Processes, Commit(p)
    PROVE  OpenInv'
<1> USE DEF OpenInv, Commit, GoTo
<1>1. writer = p /\ \A q \in Processes : q # p => process[q].pc \notin {"migrate", "commit"}
  BY DEF TypeOK
<1>2. /\ file' = File(TRUE, SCHEMA_VERSION, TRUE, process[p].source)
      /\ process[p].source \in Sources
  BY DEF TransactionsHoldTheFile, AttemptsKnowTheFile
<1>3. TypeOK'
  BY <1>1, <1>2, NoneIsNobody DEF TypeOK, File, SCHEMA_VERSION
<1>4. FilesAreWhole' /\ AttemptsKnowTheFile'
  BY <1>2, NoneIsNobody DEF TypeOK, FilesAreWhole, Whole, AttemptsKnowTheFile, File, SCHEMA_VERSION
<1>5. TransactionsHoldTheFile'
  BY <1>1 DEF TypeOK, TransactionsHoldTheFile
<1> QED
  BY <1>3, <1>4, <1>5

LEMMA NextKeeps == ASSUME OpenInv, [Next]_vars PROVE OpenInv'
<1>1. CASE UNCHANGED vars
  BY <1>1
  DEF vars, OpenInv, TypeOK, FilesAreWhole, Whole, AttemptsKnowTheFile, TransactionsHoldTheFile
<1>2. ASSUME NEW p \in Processes, OpenFails(p)
      PROVE  OpenInv'
  <2>1. writer # p
    BY <1>2 DEF OpenFails, OpenInv, TypeOK
  <2> QED
    BY <1>2, <2>1, LeavingKeeps DEF OpenFails, Throw, OpenInv, TypeOK
<1>3. ASSUME NEW p \in Processes, MigrateFails(p)
      PROVE  OpenInv'
  BY <1>3, LeavingKeeps DEF MigrateFails, Throw, Rollback, OpenInv, TypeOK
<1>4. ASSUME NEW p \in Processes, Crash(p)
      PROVE  OpenInv'
  <2>1. error' \in [Processes -> {None, "access", "integrity"}] /\ crashes' \in Nat
    BY <1>4 DEF Crash, OpenInv, TypeOK
  <2> QED
    BY <1>4, <2>1, LeavingKeeps DEF Crash, Rollback
<1>5. ASSUME NEW p \in Processes, Close(p)
      PROVE  OpenInv'
  <2>1. writer # p
    BY <1>5 DEF Close, OpenInv, TypeOK
  <2> QED
    BY <1>5, <2>1, LeavingKeeps DEF Close, OpenInv, TypeOK
<1> QED
  BY <1>1, <1>2, <1>3, <1>4, <1>5, ConstructKeeps, ReadVersionKeeps, CheckSchemaKeeps, BeginKeeps,
     MigrateKeeps, CommitKeeps
  DEF Next, Open

-----------------------------------------------------------------------------
(* The theorems. *)

LEMMA OpenInvInvariant == Spec => []OpenInv
<1>1. OpenInv /\ [Next]_vars => OpenInv'
  BY NextKeeps
<1> QED
  BY <1>1, InitHolds, PTL DEF Spec

\* Every reachable state of the file and its openers is well typed, and a
\* transaction belongs to the process in it.
THEOREM OpenTypeCorrect == Spec => []TypeOK
<1>1. OpenInv => TypeOK
  BY DEF OpenInv
<1> QED
  BY <1>1, OpenInvInvariant, PTL

\* Whichever processes fail or are killed, at whichever statement, the file has
\* a version only with all its tables and its metadata row, and nobody has a
\* store open over less.
THEOREM FilesStayWhole == Spec => []FilesAreWhole
<1>1. OpenInv => FilesAreWhole
  BY DEF OpenInv
<1> QED
  BY <1>1, OpenInvInvariant, PTL

\* However many processes open a new file at once, the first one to commit
\* names its source and no other changes the file.
THEOREM FirstOpenerWins == Spec => FirstOpenerNamesTheSource
<1>1. OpenInv /\ [Next]_vars => [file.source # None => file' = file]_vars
  <2> SUFFICES ASSUME OpenInv, Next, file.source # None
               PROVE  file' = file
    OBVIOUS
  <2>1. \A p \in Processes : ~Commit(p)
    BY DEF OpenInv, TransactionsHoldTheFile, Commit
  <2>2. file.exists /\ file = [file EXCEPT !.exists = TRUE]
    BY DEF OpenInv, AttemptsKnowTheFile, TypeOK
  <2> QED
    BY <2>1, <2>2
    DEF Next, Open, Construct, ReadVersion, CheckSchema, BeginImmediate, Migrate, OpenFails,
        MigrateFails, Rollback, Crash, Close
<1> QED
  BY <1>1, OpenInvInvariant, PTL DEF Spec, FirstOpenerNamesTheSource
=============================================================================
