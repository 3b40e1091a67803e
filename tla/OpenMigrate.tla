----------------------------- MODULE OpenMigrate -----------------------------
(***************************************************************************)
(* Opening the SQLite candidate database (new SQLiteStore): the server and *)
(* admin processes open one file at the same time, read-only or for        *)
(* writing; a writer that finds schema version 0 creates the schema in an  *)
(* immediate transaction.  Any of them may be killed.                      *)
(*                                                                         *)
(* SQLite is external: a transaction is a draft that COMMIT publishes, one *)
(* process at a time has a write transaction, and a wait for it may time   *)
(* out.                                                                    *)
(***************************************************************************)
EXTENDS Naturals

CONSTANTS
    Processes,
    Sources,        \* values of the source option
    MaxCrashes,     \* bound of the model
    None

ASSUME NoneIsNobody == None \notin Processes \cup Sources

SCHEMA_VERSION == 1

VARIABLES
    file,       \* the committed file: exists, user_version, tables, the metadata row's source
    writer,     \* the process in a write transaction, or None
    draft,      \* what that transaction has written
    process,    \* per process: pc, readonly, source
    error,      \* per process: what its last attempt to open threw
    crashes

vars == <<file, writer, draft, process, error, crashes>>

File(exists, version, tables, source) ==
    [exists |-> exists, version |-> version, tables |-> tables, source |-> source]
NoFile == File(FALSE, 0, FALSE, None)
EmptyFile == File(TRUE, 0, FALSE, None)

Whole(f) == f.tables /\ f.source # None
NewerFiles == {File(TRUE, SCHEMA_VERSION + 1, TRUE, source) : source \in Sources}

Absent == [pc |-> "closed", readonly |-> FALSE, source |-> None]

Init ==
    /\ file \in {NoFile, EmptyFile} \cup NewerFiles
    /\ writer = None
    /\ draft = NoFile
    /\ process = [p \in Processes |-> Absent]
    /\ error = [p \in Processes |-> None]
    /\ crashes = 0

GoTo(p, pc) == process' = [process EXCEPT ![p].pc = pc]

(* The constructor's catch: the connection is closed and the error thrown.  *)
Throw(p, code) ==
    /\ process' = [process EXCEPT ![p] = Absent]
    /\ error' = [error EXCEPT ![p] = code]

-----------------------------------------------------------------------------
(* new Database(filename): only a writer may create the file. *)
Construct(p, readonly, source) ==
    /\ process[p].pc = "closed"
    /\ IF readonly /\ ~file.exists
       THEN Throw(p, "access") /\ UNCHANGED file
       ELSE /\ process' = [process EXCEPT ![p] = [pc |-> "version", readonly |-> readonly, source |-> source]]
            /\ error' = [error EXCEPT ![p] = None]
            /\ file' = [file EXCEPT !.exists = TRUE]
    /\ UNCHANGED <<writer, draft, crashes>>

(* A statement, a pragma, or the wait for the lock fails. *)
OpenFails(p) ==
    /\ process[p].pc \in {"version", "schema", "begin"}
    /\ Throw(p, "access")
    /\ UNCHANGED <<file, writer, draft, crashes>>

(* migrate and ensureReadonlySchema read user_version, in no transaction.   *)
(* The constructor has set the journal mode before; it is no part of `file`. *)
ReadVersion(p) ==
    /\ process[p].pc = "version"
    /\ \/ /\ file.version = SCHEMA_VERSION
          /\ GoTo(p, "schema") /\ UNCHANGED error
       \/ /\ file.version < SCHEMA_VERSION /\ ~process[p].readonly
          /\ GoTo(p, "begin") /\ UNCHANGED error
       \/ /\ file.version > SCHEMA_VERSION \/ (process[p].readonly /\ file.version # SCHEMA_VERSION)
          /\ Throw(p, "integrity")
    /\ UNCHANGED <<file, writer, draft, crashes>>

(* assertSchema and readMetadata of a file of this version. *)
CheckSchema(p) ==
    /\ process[p].pc = "schema"
    /\ IF Whole(file) THEN GoTo(p, "open") /\ UNCHANGED error ELSE Throw(p, "integrity")
    /\ UNCHANGED <<file, writer, draft, crashes>>

(* BEGIN IMMEDIATE *)
BeginImmediate(p) ==
    /\ process[p].pc = "begin"
    /\ writer = None
    /\ writer' = p
    /\ draft' = file
    /\ GoTo(p, "migrate")
    /\ UNCHANGED <<file, error, crashes>>

(* Variant: the transaction is left as it is. *)
LeaveTransaction(p) == UNCHANGED <<writer, file, draft>>

(* ROLLBACK, if p is in a transaction. *)
Rollback(p) == writer' = (IF writer = p THEN None ELSE writer) /\ UNCHANGED <<file, draft>>

(* Variant: the version is set by a pragma of its own before the commit. *)
MigrateVersionFirst(p) ==
    /\ process[p].pc = "migrate"
    /\ \/ /\ draft.source # None
          /\ Throw(p, "integrity") /\ Rollback(p)
       \/ /\ draft.source = None
          /\ draft' = File(TRUE, SCHEMA_VERSION, TRUE, process[p].source)
          /\ file' = [file EXCEPT !.version = SCHEMA_VERSION]
          /\ GoTo(p, "commit")
          /\ UNCHANGED <<writer, error>>
    /\ UNCHANGED crashes

(* Variant: INSERT OR REPLACE, and no look at the metadata row. *)
MigrateAgain(p) ==
    /\ process[p].pc = "migrate"
    /\ draft' = File(TRUE, SCHEMA_VERSION, TRUE, process[p].source)
    /\ GoTo(p, "commit")
    /\ UNCHANGED <<file, writer, error, crashes>>

(* The transaction of migrate: the schema, the metadata row, user_version.  *)
Migrate(p) ==
    /\ process[p].pc = "migrate"
    /\ \/ /\ draft.source # None
          /\ Throw(p, "integrity") /\ Rollback(p)
       \/ /\ draft.source = None
          /\ draft' = File(TRUE, SCHEMA_VERSION, TRUE, process[p].source)
          /\ GoTo(p, "commit")
          /\ UNCHANGED <<file, writer, error>>
    /\ UNCHANGED crashes

(* A statement of the transaction, or its COMMIT, fails. *)
MigrateFails(p) ==
    /\ process[p].pc \in {"migrate", "commit"}
    /\ Throw(p, "access") /\ Rollback(p)
    /\ UNCHANGED crashes

Commit(p) ==
    /\ process[p].pc = "commit"
    /\ file' = draft
    /\ writer' = None
    /\ GoTo(p, "open")
    /\ UNCHANGED <<draft, error, crashes>>

(* The process is killed; SQLite rolls back what it did not commit. *)
Crash(p) ==
    /\ process[p].pc # "closed" /\ crashes < MaxCrashes
    /\ process' = [process EXCEPT ![p] = Absent]
    /\ crashes' = crashes + 1
    /\ Rollback(p)
    /\ UNCHANGED error

(* SQLiteStore.close *)
Close(p) ==
    /\ process[p].pc = "open"
    /\ process' = [process EXCEPT ![p] = Absent]
    /\ UNCHANGED <<file, writer, draft, error, crashes>>

-----------------------------------------------------------------------------
Open(p) ==
    \/ ReadVersion(p) \/ CheckSchema(p) \/ BeginImmediate(p) \/ Migrate(p) \/ Commit(p)

Next ==
    \E p \in Processes :
        \/ \E readonly \in BOOLEAN, source \in Sources : Construct(p, readonly, source)
        \/ Open(p)
        \/ OpenFails(p) \/ MigrateFails(p)
        \/ Crash(p)
        \/ Close(p)

Spec == Init /\ [][Next]_vars

(* Processes run; one that does not have the file open tries to open it for *)
(* writing, again and again; a lock that is free time and again is obtained *)
(* (the busy handler waits five seconds), and of the statements of many     *)
(* attempts not every one fails.                                            *)
Retry(p) == \E source \in Sources : Construct(p, FALSE, source)
ReadVersionToWrite(p) == ~process[p].readonly /\ ReadVersion(p)
CheckSchemaToWrite(p) == ~process[p].readonly /\ CheckSchema(p)
FairSpec ==
    /\ Spec
    /\ \A p \in Processes :
          /\ SF_vars(Retry(p)) /\ SF_vars(ReadVersionToWrite(p)) /\ SF_vars(CheckSchemaToWrite(p))
          /\ SF_vars(BeginImmediate(p)) /\ SF_vars(Migrate(p)) /\ SF_vars(Commit(p))
          /\ WF_vars(Open(p))

-----------------------------------------------------------------------------
(* The shape of the state; a transaction belongs to the process in it. *)
TypeOK ==
    /\ file \in [exists : BOOLEAN, version : 0 .. SCHEMA_VERSION + 1, tables : BOOLEAN,
                 source : Sources \cup {None}]
    /\ process \in [Processes -> [pc : {"closed", "version", "schema", "begin", "migrate", "commit", "open"},
                                  readonly : BOOLEAN, source : Sources \cup {None}]]
    /\ error \in [Processes -> {None, "access", "integrity"}]
    /\ crashes \in Nat
    /\ \A p \in Processes : writer = p <=> process[p].pc \in {"migrate", "commit"}

(* Whoever was killed, and whenever: a file has the version of this package *)
(* only with its tables and its metadata row, and neither without it; and   *)
(* no process has a store open over anything less.  (migrate)               *)
FilesAreWhole ==
    /\ file.version = 0 <=> ~file.tables
    /\ file.version > 0 => Whole(file)
    /\ \A p \in Processes : process[p].pc = "open" => file.version = SCHEMA_VERSION /\ Whole(file)

(* The first process to create the store names its source; opening it again *)
(* with other options, at the same time or later, does not rename it, and   *)
(* a newer file is left alone.  (migrate)                                   *)
FirstOpenerNamesTheSource == [][file.source # None => file' = file]_vars

(* A process that keeps trying to open a file of no later version has it    *)
(* open at some time, whoever else opens, fails or is killed half way.      *)
OpenersGetIn ==
    \A p \in Processes :
        file.version <= SCHEMA_VERSION ~> process[p].pc = "open"
=============================================================================
