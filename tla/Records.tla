------------------------------- MODULE Records -------------------------------
(***************************************************************************)
(* The record stores of KeyNest: credentials (vault/service.rs), notes     *)
(* (notes/service.rs), the folders that group them (folders.rs) and        *)
(* Recently Deleted (recently_deleted.rs), as the commands of ipc.rs drive *)
(* them.                                                                   *)
(*                                                                         *)
(* Every service call opens its SQLite file and runs one transaction,      *)
(* which is one step here.  Listing and emptying Recently Deleted, and     *)
(* assigning a folder, are several transactions: other instances of the    *)
(* program, a crash or a storage failure come between them.  Within one    *)
(* process the operation gate admits one command at a time.                *)
(***************************************************************************)
EXTENDS Integers, FiniteSets

CONSTANTS Processes,      \* running instances of the program over one data directory
          Credentials,    \* ids of credentials, each drawn at random once
          Notes,          \* ids of notes
          Folders,        \* ids of folders
          Names,          \* folder names, up to letter case
          Texts,          \* contents of a record
          Retention,      \* how long a deleted item is kept (30 days)
          MaxClock,       \* bound on the clock
          NoFolder,       \* an item that is in no folder
          Unnamed         \* a folder id that names no folder

Items == Credentials \cup Notes

ASSUME RecordsAssumption ==
    /\ Credentials \cap Notes = {}
    /\ Retention \in Nat
    /\ MaxClock \in Nat
    /\ NoFolder \notin Folders
    /\ Unnamed \notin Names
    /\ Texts # {}

VARIABLES now,        \* the system clock
          rows,       \* vault.enc and notes.enc: the row of every id
          folders,    \* folders.db: the name of every folder id
          assigned,   \* folders.db: the folder of every item id
          unlocked,   \* processes that hold the vault key
          command,    \* per process: the command that has started and not ended
          outcome,    \* per process: what the last command reported
          filedIn     \* history: the folder a deleted item was in when it was deleted

stores == <<rows, folders, assigned>>
vars == <<now, stores, unlocked, command, outcome, filedIn>>

Clock == 0..MaxClock
Phases == {"none", "active", "deleted", "gone"}
NotDeleted == -1
Rows == [phase : Phases, text : Texts, deletedAt : Clock \cup {NotDeleted},
         readable : BOOLEAN]
Outcomes == {"none", "ok", "InvalidInput", "NotFound", "DuplicateName",
             "DataDamaged", "StorageUnavailable"}
Listed == [item : Items, deletedAt : Clock]

Idle == [name |-> "idle"]
Clearing == [name : {"list", "empty"}, store : {"vault", "notes"},
             todo : SUBSET Listed, cutoff : -Retention..MaxClock]
Assigning == [name : {"assign"}, item : Items, folder : Folders \cup {NoFolder}]

TypeOK ==
    /\ now \in Clock
    /\ rows \in [Items -> Rows]
    /\ folders \in [Folders -> Names \cup {Unnamed}]
    /\ assigned \in [Items -> Folders \cup {NoFolder}]
    /\ unlocked \in [Processes -> BOOLEAN]
    /\ command \in [Processes -> {Idle} \cup Clearing \cup Assigning]
    /\ outcome \in [Processes -> Outcomes]
    /\ filedIn \in [Items -> Folders \cup {NoFolder}]

Init ==
    /\ now = 0
    /\ \E t \in Texts :
          rows = [i \in Items |-> [phase |-> "none", text |-> t,
                                   deletedAt |-> NotDeleted, readable |-> TRUE]]
    /\ filedIn = [i \in Items |-> NoFolder]
    /\ folders = [f \in Folders |-> Unnamed]
    /\ assigned = [i \in Items |-> NoFolder]
    /\ unlocked = [p \in Processes |-> FALSE]
    /\ command = [p \in Processes |-> Idle]
    /\ outcome = [p \in Processes |-> "none"]

---------------------------------------------------------------------------
(* How a command begins and ends.                                          *)

\* The gate is free and the session holds the vault key.
MayStart(p) == unlocked[p] /\ command[p] = Idle

Report(p, result) == outcome' = [outcome EXCEPT ![p] = result]

\* A command that is one transaction: it never gives up the gate in between.
Ends(p, result) == Report(p, result) /\ UNCHANGED <<now, unlocked, command>>

\* A command of several transactions ends.
Leaves(p, result) == /\ command' = [command EXCEPT ![p] = Idle]
                     /\ Report(p, result)
                     /\ UNCHANGED <<now, unlocked>>

---------------------------------------------------------------------------
(* One row.  Each transaction looks for the row in the phase it expects,   *)
(* decrypts it, and only then changes it.                                  *)

Deleted(S) == {i \in S : rows[i].phase = "deleted"}

\* The file may be locked or unreadable at any time.
Refusals(i, expected) ==
    {"StorageUnavailable"}
      \cup (IF rows[i].phase # expected THEN {"NotFound"}
            ELSE IF rows[i].readable THEN {} ELSE {"DataDamaged"})

Found(i, expected) == rows[i].phase = expected /\ rows[i].readable

Forget(i) == filedIn' = [filedIn EXCEPT ![i] = NoFolder]

ChangeRow(i, row) == rows' = [rows EXCEPT ![i] = row] /\ UNCHANGED <<folders, assigned>>

Edited(i, t) == [rows[i] EXCEPT !.text = t]

SoftDeleted(i) == [rows[i] EXCEPT !.phase = "deleted", !.deletedAt = now]
Restored(i) == [rows[i] EXCEPT !.phase = "active", !.deletedAt = NotDeleted]
Removed(i) == [rows[i] EXCEPT !.phase = "gone", !.deletedAt = NotDeleted]

\* A command refused before or inside its transaction leaves everything as it was.
Refused(p, i, expected) ==
    /\ \E why \in Refusals(i, expected) : Ends(p, why)
    /\ UNCHANGED <<stores, filedIn>>

InvalidInput(p) ==
    /\ MayStart(p)
    /\ \E why \in {"InvalidInput", "StorageUnavailable"} : Ends(p, why)
    /\ UNCHANGED <<stores, filedIn>>

CreateRow(p, i, t) ==
    /\ MayStart(p)
    /\ rows[i].phase = "none"
    /\ ChangeRow(i, [phase |-> "active", text |-> t, deletedAt |-> NotDeleted, readable |-> TRUE])
    /\ Ends(p, "ok")
    /\ UNCHANGED filedIn

EditRow(p, i, t) ==
    /\ MayStart(p)
    /\ \/ Found(i, "active") /\ ChangeRow(i, Edited(i, t)) /\ Ends(p, "ok") /\ UNCHANGED filedIn
       \/ Refused(p, i, "active")

DeleteRow(p, i) ==
    /\ MayStart(p)
    /\ \/ /\ Found(i, "active")
          /\ ChangeRow(i, SoftDeleted(i))
          /\ filedIn' = [filedIn EXCEPT ![i] = assigned[i]]
          /\ Ends(p, "ok")
       \/ Refused(p, i, "active")

RestoreRow(p, i) ==
    /\ MayStart(p)
    /\ \/ Found(i, "deleted") /\ ChangeRow(i, Restored(i)) /\ Ends(p, "ok") /\ Forget(i)
       \/ Refused(p, i, "deleted")

PermanentlyDeleteRow(p, i) ==
    /\ MayStart(p)
    /\ \/ Found(i, "deleted") /\ ChangeRow(i, Removed(i)) /\ Ends(p, "ok") /\ Forget(i)
       \/ Refused(p, i, "deleted")

CreateVaultRecord(p) == \E i \in Credentials, t \in Texts : CreateRow(p, i, t)
UpdateVaultRecord(p) == \E i \in Credentials, t \in Texts : EditRow(p, i, t)
DeleteVaultRecord(p) == \E i \in Credentials : DeleteRow(p, i)

CreateNote(p) == \E i \in Notes, t \in Texts : CreateRow(p, i, t)
UpdateNote(p) == \E i \in Notes, t \in Texts : EditRow(p, i, t)
DeleteNote(p) == \E i \in Notes : DeleteRow(p, i)

RestoreNote(p) == \E i \in Notes : RestoreRow(p, i)
RestoreDeletedItem(p) == RestoreNote(p) \/ \E i \in Credentials : RestoreRow(p, i)

PermanentlyDeleteNote(p) == \E i \in Notes : PermanentlyDeleteRow(p, i)
PermanentlyDeleteItem(p) ==
    PermanentlyDeleteNote(p) \/ \E i \in Credentials : PermanentlyDeleteRow(p, i)

\* Reading: one active row, or all of them; one damaged row fails the whole list.
GetRecord(p, i) ==
    /\ MayStart(p)
    /\ \/ Found(i, "active") /\ Ends(p, "ok") /\ UNCHANGED <<stores, filedIn>>
       \/ Refused(p, i, "active")

ListResults(S, phase) ==
    {"StorageUnavailable"}
      \cup (IF \A i \in S : rows[i].phase = phase => rows[i].readable
            THEN {"ok"} ELSE {"DataDamaged"})

ListRecords(p, S) ==
    /\ MayStart(p)
    /\ \E result \in ListResults(S, "active") : Ends(p, result)
    /\ UNCHANGED <<stores, filedIn>>

ReadNotes(p) == ListRecords(p, Notes) \/ \E i \in Notes : GetRecord(p, i)
ReadVault(p) == ListRecords(p, Credentials) \/ \E i \in Credentials : GetRecord(p, i)

---------------------------------------------------------------------------
(* Recently Deleted: listing purges what is overdue, emptying purges       *)
(* everything; credentials first, then notes, newest first, item by item.  *)

StoreItems(store) == IF store = "vault" THEN Credentials ELSE Notes

\* Mutant: emptying spares what is not yet overdue.
ToRemoveOverdueOnly(name, store, cutoff) ==
    {[item |-> i, deletedAt |-> rows[i].deletedAt] :
        i \in {j \in Deleted(StoreItems(store)) : rows[j].deletedAt < cutoff}}

ToRemove(name, store, cutoff) ==
    {[item |-> i, deletedAt |-> rows[i].deletedAt] :
        i \in {j \in Deleted(StoreItems(store)) :
                 name = "list" => rows[j].deletedAt < cutoff}}

\* list_deleted of one store: all or nothing.
ReadsDeleted(p, name, store, cutoff) ==
    \E result \in ListResults(StoreItems(store), "deleted") :
        IF result = "ok"
        THEN /\ command' = [command EXCEPT ![p] =
                  [name |-> name, store |-> store, cutoff |-> cutoff,
                   todo |-> ToRemove(name, store, cutoff)]]
             /\ UNCHANGED <<now, unlocked, outcome>>
        ELSE Leaves(p, result)

ListDeletedItems(p) ==
    /\ MayStart(p)
    /\ ReadsDeleted(p, "list", "vault", now - Retention)
    /\ UNCHANGED <<stores, filedIn>>

EmptyRecentlyDeleted(p) ==
    /\ MayStart(p)
    /\ ReadsDeleted(p, "empty", "vault", now - Retention)
    /\ UNCHANGED <<stores, filedIn>>

IsClearing(p) == command[p].name \in {"list", "empty"}

Newest(S) == {x \in S : \A y \in S : y.deletedAt <= x.deletedAt}

\* Mutant: what was listed is removed without looking at its phase again.
RemoveNextUnchecked(p) ==
    /\ IsClearing(p)
    /\ \E x \in Newest(command[p].todo) :
          /\ ChangeRow(x.item, Removed(x.item))
          /\ Forget(x.item)
          /\ command' = [command EXCEPT ![p].todo = @ \ {x}]
          /\ UNCHANGED <<now, unlocked, outcome>>

RemoveNext(p) ==
    /\ IsClearing(p)
    /\ \E x \in Newest(command[p].todo) :
          \/ /\ Found(x.item, "deleted")
             /\ ChangeRow(x.item, Removed(x.item))
             /\ Forget(x.item)
             /\ command' = [command EXCEPT ![p].todo = @ \ {x}]
             /\ UNCHANGED <<now, unlocked, outcome>>
          \/ \E why \in Refusals(x.item, "deleted") :
                Leaves(p, why) /\ UNCHANGED <<stores, filedIn>>

TurnToNotes(p) ==
    /\ IsClearing(p)
    /\ command[p].store = "vault"
    /\ command[p].todo = {}
    /\ ReadsDeleted(p, command[p].name, "notes", command[p].cutoff)
    /\ UNCHANGED <<stores, filedIn>>

\* Both purges are done; listing then reads both stores again for its answer.
FinishClearing(p) ==
    /\ IsClearing(p)
    /\ command[p].store = "notes"
    /\ command[p].todo = {}
    /\ \E result \in IF command[p].name = "empty" THEN {"ok"}
                     ELSE ListResults(Items, "deleted") :
          Leaves(p, result)
    /\ UNCHANGED <<stores, filedIn>>

---------------------------------------------------------------------------
(* Folders.                                                                *)

Exists(f) == folders[f] # Unnamed
NameTaken(n, f) == \E g \in Folders \ {f} : folders[g] = n

ChangeFolders(p) == Ends(p, "ok") /\ UNCHANGED <<rows, filedIn>>

FolderRefused(p, whys) ==
    /\ \E why \in whys \cup {"StorageUnavailable"} : Ends(p, why)
    /\ UNCHANGED <<stores, filedIn>>

CreateFolder(p, f, n) ==
    /\ MayStart(p)
    /\ ~Exists(f)
    /\ IF NameTaken(n, f)
       THEN FolderRefused(p, {"DuplicateName"})
       ELSE folders' = [folders EXCEPT ![f] = n] /\ UNCHANGED assigned /\ ChangeFolders(p)

RenameFolder(p, f, n) ==
    /\ MayStart(p)
    /\ IF ~Exists(f) THEN FolderRefused(p, {"NotFound"})
       ELSE IF NameTaken(n, f) THEN FolderRefused(p, {"DuplicateName"})
       ELSE folders' = [folders EXCEPT ![f] = n] /\ UNCHANGED assigned /\ ChangeFolders(p)

\* Deleting a folder deletes its assignments with it (ON DELETE CASCADE).
DeleteFolder(p, f) ==
    /\ MayStart(p)
    /\ IF ~Exists(f)
       THEN FolderRefused(p, {"NotFound"})
       ELSE /\ folders' = [folders EXCEPT ![f] = Unnamed]
            /\ assigned' = [i \in Items |-> IF assigned[i] = f THEN NoFolder ELSE assigned[i]]
            /\ ChangeFolders(p)

ReadFolders(p, f) ==
    /\ MayStart(p)
    /\ FolderRefused(p, {"ok"} \cup (IF Exists(f) THEN {} ELSE {"NotFound"}))

FolderCommands(p) ==
    \E f \in Folders :
        \/ ReadFolders(p, f)
        \/ \E n \in Names : CreateFolder(p, f, n) \/ RenameFolder(p, f, n)
        \/ DeleteFolder(p, f)

\* Assigning first reads the record, then writes the other database.
BeginAssign(p, i, f) ==
    /\ MayStart(p)
    /\ \/ /\ Found(i, "active")
          /\ command' = [command EXCEPT ![p] = [name |-> "assign", item |-> i, folder |-> f]]
          /\ UNCHANGED <<now, unlocked, outcome, stores, filedIn>>
       \/ Refused(p, i, "active")

\* Mutant: foreign keys are not enforced while the assignment is written.
FinishAssignUnchecked(p) ==
    /\ command[p].name = "assign"
    /\ assigned' = [assigned EXCEPT ![command[p].item] = command[p].folder]
    /\ Leaves(p, "ok")
    /\ UNCHANGED <<rows, folders, filedIn>>

\* The folder may be gone by now; the foreign key refuses it then.
FinishAssign(p) ==
    /\ command[p].name = "assign"
    /\ LET i == command[p].item
           f == command[p].folder
       IN \/ /\ f # NoFolder => Exists(f)
             /\ assigned' = [assigned EXCEPT ![i] = f]
             /\ Leaves(p, "ok")
             /\ UNCHANGED <<rows, folders, filedIn>>
          \/ /\ \E why \in {"StorageUnavailable"}
                      \cup (IF f # NoFolder /\ ~Exists(f) THEN {"NotFound"} ELSE {}) :
                   Leaves(p, why)
             /\ UNCHANGED <<stores, filedIn>>

AssignCredentialFolder(p) ==
    \E i \in Credentials, f \in Folders \cup {NoFolder} : BeginAssign(p, i, f)
AssignNoteFolder(p) ==
    \E i \in Notes, f \in Folders \cup {NoFolder} : BeginAssign(p, i, f)

---------------------------------------------------------------------------
(* The session and the world.                                              *)

Unlock(p) == /\ ~unlocked[p]
             /\ unlocked' = [unlocked EXCEPT ![p] = TRUE]
             /\ UNCHANGED <<now, stores, command, outcome, filedIn>>

\* Locking takes the gate, so it comes between commands only.
Lock(p) == /\ MayStart(p)
           /\ unlocked' = [unlocked EXCEPT ![p] = FALSE]
           /\ UNCHANGED <<now, stores, command, outcome, filedIn>>

\* The process ends anywhere and may be started again; a transaction that has
\* not been committed is rolled back.
ProcessEnds(p) == /\ unlocked[p]
                  /\ unlocked' = [unlocked EXCEPT ![p] = FALSE]
                  /\ command' = [command EXCEPT ![p] = Idle]
                  /\ outcome' = [outcome EXCEPT ![p] = "none"]
                  /\ UNCHANGED <<now, stores, filedIn>>

Tick == /\ now < MaxClock
        /\ now' = now + 1
        /\ UNCHANGED <<stores, unlocked, command, outcome, filedIn>>

\* One row no longer decrypts: a damaged file.  At most one at a time.
RowIsDamaged(i) ==
    /\ rows[i].phase \in {"active", "deleted"}
    /\ \A j \in Items : rows[j].readable
    /\ rows' = [rows EXCEPT ![i].readable = FALSE]
    /\ UNCHANGED <<now, folders, assigned, unlocked, command, outcome, filedIn>>

VaultCommands(p) ==
    \/ CreateVaultRecord(p) \/ UpdateVaultRecord(p) \/ DeleteVaultRecord(p)
    \/ ReadVault(p) \/ AssignCredentialFolder(p)

NoteCommands(p) ==
    \/ CreateNote(p) \/ UpdateNote(p) \/ DeleteNote(p) \/ ReadNotes(p)
    \/ AssignNoteFolder(p) \/ InvalidInput(p)

DeletedItemCommands(p) ==
    \/ ListDeletedItems(p) \/ EmptyRecentlyDeleted(p)
    \/ RestoreDeletedItem(p) \/ PermanentlyDeleteItem(p)

Continues(p) == RemoveNext(p) \/ TurnToNotes(p) \/ FinishClearing(p) \/ FinishAssign(p)

Process(p) ==
    \/ VaultCommands(p) \/ NoteCommands(p) \/ DeletedItemCommands(p)
    \/ FolderCommands(p) \/ Continues(p)
    \/ Unlock(p) \/ Lock(p) \/ ProcessEnds(p)

Next == Tick \/ (\E i \in Items : RowIsDamaged(i)) \/ \E p \in Processes : Process(p)

Spec == Init /\ [][Next]_vars

---------------------------------------------------------------------------
(* Properties.                                                             *)

\* An assignment always names an existing folder: a folder deleted by another
\* instance between the check and the write of an assignment (folders.rs:225-257)
\* must not leave an item in a folder that nobody can open.
AssignmentsNameFolders == \A i \in Items : assigned[i] # NoFolder => Exists(assigned[i])

\* A record in Recently Deleted keeps its place: it stays in the folder it was
\* deleted from unless that folder itself is deleted, so that restoring it brings
\* back what the user had (ipc.rs:1959-2013 assigns only what is active).
DeletedItemsKeepTheirFolder ==
    \A i \in Deleted(Items) :
        assigned[i] \in {filedIn[i], NoFolder}

\* Emptying Recently Deleted reports success only when nothing is left in either
\* store, although it removes item by item and gives up at the first failure
\* (ipc.rs:984-1005).
EmptiesAll ==
    \A p \in Processes :
        (command[p].name = "empty" /\ command'[p] = Idle /\ outcome'[p] = "ok")
            => Deleted(Items) = {}

\* What a successful listing shows is not overdue: the purge that precedes it has
\* removed all that was, in both stores (ipc.rs:920-946).
ShowsRecent ==
    \A p \in Processes :
        (command[p].name = "list" /\ command'[p] = Idle /\ outcome'[p] = "ok")
            => \A i \in Deleted(Items) : rows[i].deletedAt >= command[p].cutoff

\* A purge removes only what has been in Recently Deleted for the whole retention
\* time; only the user removes anything earlier.
PurgesOverdue ==
    \A p \in Processes :
        (command[p].name = "list" /\ command'[p] # command[p]) =>
            \A i \in Items : (rows[i].phase # "gone" /\ rows'[i].phase = "gone")
                                => rows[i].deletedAt + Retention < now
PurgeRespectsRetention == [][PurgesOverdue]_vars

\* A listing that gives up, although storage works, leaves nothing overdue behind
\* that could be read: items are to go after 30 days (RecentlyDeletedPage.tsx:161).
GivesUp(p) == ListDeletedItems(p) /\ command'[p] = Idle /\ outcome'[p] = "DataDamaged"

OverdueItemsAreRemoved ==
    [][\A p \in Processes :
          GivesUp(p) => \A i \in Deleted(Items) :
                           rows[i].readable => rows[i].deletedAt + Retention >= now]_vars

\* The stores implement the life cycle of a record.
Life == INSTANCE RecordLife WITH phase <- [i \in Items |-> rows[i].phase],
                                 text <- [i \in Items |-> rows[i].text]
Lifecycle == Life!Spec
=============================================================================
