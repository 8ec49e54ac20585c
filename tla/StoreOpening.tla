---------------------------- MODULE StoreOpening ----------------------------
(***************************************************************************)
(* Opening one of the SQLite files (vault.enc, notes.enc, folders.db):     *)
(* every service call reads the schema version, creates or migrates the    *)
(* schema in a transaction where it has to, and checks the result.  Other  *)
(* instances of the program do the same, transactions fail or are cut      *)
(* short, and the file may be somebody else's or from a newer version.     *)
(*                                                                         *)
(* SQLite itself is external: one writer at a time, a transaction that has *)
(* not been committed leaves no trace, a commit waits for readers.         *)
(***************************************************************************)
EXTENDS Integers, FiniteSets

CONSTANTS Processes,    \* instances of the program
          Kinds,        \* which of the three files, see Latest
          Records,      \* rows of a file written by an earlier version
          MaxFaults,    \* bound on storage failures and crashes
          NoProcess     \* nobody writes

OpeningAssumption == MaxFaults \in Nat /\ NoProcess \notin Processes

VARIABLES kind,      \* which file this is
          file,      \* what is on disk
          writer,    \* the process that holds the write lock
          work,      \* the file as the writer's transaction sees it
          readers,   \* processes inside a deferred transaction (folders.db)
          pc,        \* per process: how far opening has come
          outcome,   \* per process: what the last attempt reported
          faults     \* storage failures so far

vars == <<kind, file, writer, work, readers, pc, outcome, faults>>

\* The schema version this program writes.
Latest == IF kind = "folders" THEN 1 ELSE 2

Schema(version) == IF version = 1 THEN "v1" ELSE "v2"

\* "none": no objects; "half": between two statements; "alien": anything else.
Files == [version : 0..3, schema : {"none", "half", "v1", "v2", "alien"},
          rows : SUBSET Records, aside : SUBSET Records]

Whole(f) == \/ f.version = 0 /\ f.schema = "none"
            \/ f.version \in 1..Latest /\ f.schema = Schema(f.version)

TypeOK ==
    /\ kind \in Kinds
    /\ file \in Files
    /\ writer \in Processes \cup {NoProcess}
    /\ work \in Files
    /\ readers \subseteq Processes
    /\ pc \in [Processes -> {"closed", "initialize", "migrate", "counted", "create",
                             "convert", "index", "copy", "commit", "validate", "open"}]
    /\ outcome \in [Processes -> {"none", "ok", "DataDamaged", "StorageUnavailable"}]
    /\ faults \in 0..MaxFaults

\* A folders.db of the current version is opened whatever its tables are (folders.rs:104).
TakenOnTrust == kind = "folders" /\ file.version = 1 /\ file.schema = "alien"

\* A fresh file, one of this or an earlier version, or a foreign one of any version, those
\* of a newer program among them.
Init ==
    /\ kind \in Kinds
    /\ file \in {f \in Files :
            /\ f.aside = {}
            /\ \/ Whole(f) /\ f.rows = IF f.version = 0 THEN {} ELSE Records
               \/ f.schema = "alien"}
    /\ writer = NoProcess
    /\ work = file
    /\ readers = {}
    /\ pc = [p \in Processes |-> "closed"]
    /\ outcome = [p \in Processes |-> "none"]
    /\ faults = 0

Goes(p, from, to) == pc[p] = from /\ pc' = [pc EXCEPT ![p] = to]

\* Mutant: a transaction that fails is left open.
GivesUpInside(p, why) ==
    /\ pc' = [pc EXCEPT ![p] = "closed"]
    /\ outcome' = [outcome EXCEPT ![p] = why]
    /\ UNCHANGED <<kind, file, writer, work, readers>>

\* Giving up drops the connection, its locks and its transaction.
GivesUp(p, why) ==
    /\ pc' = [pc EXCEPT ![p] = "closed"]
    /\ outcome' = [outcome EXCEPT ![p] = why]
    /\ writer' = IF writer = p THEN NoProcess ELSE writer
    /\ readers' = readers \ {p}
    /\ UNCHANGED <<kind, file, work>>

ReportsDamage(p, at) == pc[p] = at /\ GivesUp(p, "DataDamaged") /\ UNCHANGED faults

\* The version is read before any transaction.
ReadVersion(p) ==
    IF file.version > Latest
    THEN ReportsDamage(p, "closed")
    ELSE /\ Goes(p, "closed", IF file.version = Latest THEN "validate"
                              ELSE IF file.version = 0 THEN "initialize" ELSE "migrate")
         /\ UNCHANGED <<kind, file, writer, work, readers, outcome, faults>>

TakesWriteLock(p) == /\ writer = NoProcess
                     /\ writer' = p
                     /\ work' = file
                     /\ UNCHANGED <<kind, file, readers, outcome, faults>>

BeginImmediate(p) ==
    /\ kind # "folders"
    /\ Goes(p, "initialize", "create") \/ Goes(p, "migrate", "convert")
    /\ TakesWriteLock(p)

\* folders.db counts the objects before it asks for the write lock.
BeginDeferred(p) ==
    /\ kind = "folders"
    /\ IF file.schema # "none"
       THEN ReportsDamage(p, "initialize")
       ELSE /\ Goes(p, "initialize", "counted")
            /\ readers' = readers \cup {p}
            /\ UNCHANGED <<kind, file, writer, work, outcome, faults>>

Upgrade(p) == Goes(p, "counted", "create") /\ TakesWriteLock(p)

\* Mutant: the vault does not read the version again inside the transaction.
CreateTableOnStaleVersion(p) ==
    /\ Goes(p, "create", "index")
    /\ work' = [work EXCEPT !.schema = "half", !.rows = {}]
    /\ UNCHANGED <<kind, file, writer, readers, outcome, faults>>

\* Inside the transaction the vault reads the version again, the others look for
\* objects; then the table is created.
CreateTable(p) ==
    \/ /\ work.version = 0 /\ work.schema = "none"
       /\ Goes(p, "create", "index")
       /\ work' = [work EXCEPT !.schema = "half"]
       /\ UNCHANGED <<kind, file, writer, readers, outcome, faults>>
    \/ /\ kind = "vault" /\ work.version \in {1, 2} /\ work.schema = Schema(work.version)
       /\ Goes(p, "create", "commit")
       /\ UNCHANGED <<kind, file, writer, work, readers, outcome, faults>>
    \/ /\ work.schema # "none"
       /\ kind = "vault" => ~(work.version \in {1, 2} /\ work.schema = Schema(work.version))
       /\ ReportsDamage(p, "create")

CreateIndex(p) ==
    /\ Goes(p, "index", "commit")
    /\ work' = [work EXCEPT !.schema = Schema(Latest), !.version = Latest]
    /\ UNCHANGED <<kind, file, writer, readers, outcome, faults>>

\* Migration: the old table is checked and set aside ...
RenameTable(p) ==
    IF work.schema # "v1"
    THEN ReportsDamage(p, "convert")
    ELSE /\ Goes(p, "convert", "copy")
         /\ work' = [work EXCEPT !.schema = "half", !.rows = {}, !.aside = work.rows]
         /\ UNCHANGED <<kind, file, writer, readers, outcome, faults>>

\* ... and its rows are copied into the new one.
CopyRows(p) ==
    /\ Goes(p, "copy", "commit")
    /\ work' = [version |-> 2, schema |-> "v2", rows |-> work.aside, aside |-> {}]
    /\ UNCHANGED <<kind, file, writer, readers, outcome, faults>>

\* Mutant: every statement is committed on its own.
CommitEarly(p) ==
    /\ writer = p
    /\ file' = work
    /\ pc' = IF pc[p] = "commit" THEN [pc EXCEPT ![p] = "validate"] ELSE pc
    /\ writer' = IF pc[p] = "commit" THEN NoProcess ELSE writer
    /\ UNCHANGED <<kind, work, readers, outcome, faults>>

\* A commit waits until nobody else reads.
Commit(p) ==
    /\ Goes(p, "commit", "validate")
    /\ readers \subseteq {p}
    /\ file' = work
    /\ writer' = NoProcess
    /\ readers' = {}
    /\ UNCHANGED <<kind, work, outcome, faults>>

\* folders.db is opened without a further look at its schema.
Validate(p) ==
    \/ /\ kind = "folders" \/ file.schema = Schema(Latest)
       /\ Goes(p, "validate", "open")
       /\ outcome' = [outcome EXCEPT ![p] = "ok"]
       /\ UNCHANGED <<kind, file, writer, work, readers, faults>>
    \/ /\ kind # "folders" /\ file.schema # Schema(Latest)
       /\ ReportsDamage(p, "validate")

\* An open connection is used: a row is written.  A foreign file that was taken on trust
\* may take it, or refuse it.
Insert(p) ==
    /\ pc[p] = "open"
    /\ writer = NoProcess
    /\ readers = {}
    /\ file.rows # Records
    /\ file' = [file EXCEPT !.rows = Records]
    /\ UNCHANGED <<kind, writer, work, readers, pc, outcome, faults>>

\* Waiting for a lock ends after five seconds.
BusyTimeout(p) ==
    /\ \/ pc[p] \in {"initialize", "migrate", "counted"} /\ writer # NoProcess
       \/ pc[p] = "commit" /\ ~(readers \subseteq {p})
    /\ GivesUp(p, "StorageUnavailable")
    /\ UNCHANGED faults

\* Storage fails, or the process ends, anywhere.
StorageFails(p) ==
    /\ pc[p] \notin {"closed", "open"}
    /\ faults < MaxFaults
    /\ \E why \in {"StorageUnavailable", "none"} : GivesUp(p, why)
    /\ faults' = faults + 1

Opens(p) ==
    \/ ReadVersion(p) \/ BeginImmediate(p) \/ BeginDeferred(p) \/ Upgrade(p)
    \/ CreateTable(p) \/ CreateIndex(p) \/ RenameTable(p) \/ CopyRows(p)
    \/ Commit(p) \/ Validate(p)

Next == \E p \in Processes : Opens(p) \/ Insert(p) \/ BusyTimeout(p) \/ StorageFails(p)

Spec == Init /\ [][Next]_vars

\* A command is tried again, and a running process makes steps.
FairSpec == Spec /\ \A p \in Processes : WF_vars(Opens(p))

---------------------------------------------------------------------------
\* Nobody holds the write lock outside a transaction: an attempt that fails half-way
\* must not keep the other instances out of the store.
LockIsInTransaction ==
    \A p \in Processes :
        writer = p <=> pc[p] \in {"create", "convert", "index", "copy", "commit"}

\* What is on disk is never a schema in the making: a crash or a failure between
\* two statements leaves the file as it was (MIGRATE_VAULT_V1_TO_V2_SQL is one
\* transaction).
DiskIsWhole == Whole(file) \/ file.schema = "alien"

\* A file that is not ours is never changed, except that a row may be written to a
\* folders.db that was taken on trust; its version and its tables stay what they are.
ForeignFileUntouched ==
    [][~Whole(file) => \/ UNCHANGED file
                       \/ /\ TakenOnTrust
                          /\ file' = [file EXCEPT !.rows = file'.rows]]_vars

\* No row is ever lost to an initialization or a migration, neither those of an
\* earlier version nor those that another instance has written since this one read
\* the version.
RowsSurvive == [][file.rows \subseteq file'.rows]_vars

\* Whoever got a connection works on the schema the queries are written for, although
\* the version was read before the transaction: always for the two encrypted stores, and
\* for a folders.db unless it was taken on trust.
OpenMeansCurrent ==
    \A p \in Processes : pc[p] = "open" =>
        file.version = Latest /\ (file.schema = Schema(Latest) \/ TakenOnTrust)

\* Without that exception, which is not so (folders.rs:104).
OnlyOursIsOpened == \A p \in Processes : pc[p] = "open" => Whole(file)

\* All of it that a glance at the file and at the instances can tell.
FileIsSound == LockIsInTransaction /\ DiskIsWhole /\ OpenMeansCurrent

\* All of it that a step could break: what is in a file stays there.
DataSurvives == RowsSurvive /\ ForeignFileUntouched

\* A file that is whole opens for everybody who keeps trying (vault and notes: a
\* deferred transaction may time out again and again).
EverybodyOpens ==
    (kind # "folders" /\ Whole(file)) ~> \A p \in Processes : pc[p] = "open"

\* The user is told that data is damaged only when it is.
DamageReportsAreTrue ==
    \A p \in Processes : outcome[p] = "DataDamaged" => ~Whole(file)
=============================================================================
