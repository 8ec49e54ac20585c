--------------------------- MODULE RecordsProofs ---------------------------
(***************************************************************************)
(* Proofs about Records for any number of instances, records and folders:  *)
(* every state is well formed, an assignment always names an existing      *)
(* folder, and the stores implement the life cycle of a record             *)
(* (RecordLife); and about one instance that runs alone (MCRecords): what  *)
(* it purges is exactly what it is to purge.                               *)
(*                                                                         *)
(* Whatever a command does in between, a step changes one row, or the      *)
(* folders, or one assignment, or nothing; that is proved first, and the   *)
(* theorems about all instances look at those few changes only.  A purge   *)
(* takes many steps: of the instance that runs alone it is proved that     *)
(* what it has listed is what is deleted, and what it has not listed is    *)
(* still to come or not yet overdue.                                       *)
(***************************************************************************)
EXTENDS MCRecords, TLAPS

ToDo == [item : Items, deletedAt : Clock \cup {NotDeleted}]

Clears == [name : {"list", "empty"}, store : {"vault", "notes"}, todo : SUBSET ToDo,
           cutoff : Int]

Types ==
    /\ now \in Clock
    /\ rows \in [Items -> Rows]
    /\ folders \in [Folders -> Names \cup {Unnamed}]
    /\ assigned \in [Items -> Folders \cup {NoFolder}]
    /\ command \in [Processes -> {Idle} \cup Clears \cup Assigning]

IInv == Types /\ AssignmentsNameFolders

\* What a step may do to one row ...
RowStep(i) ==
    \/ \E t \in Texts :
          /\ rows[i].phase = "none"
          /\ rows' = [rows EXCEPT ![i] = [phase |-> "active", text |-> t,
                                          deletedAt |-> NotDeleted, readable |-> TRUE]]
    \/ \E t \in Texts :
          rows[i].phase = "active" /\ rows' = [rows EXCEPT ![i] = Edited(i, t)]
    \/ rows[i].phase = "active" /\ rows' = [rows EXCEPT ![i] = SoftDeleted(i)]
    \/ rows[i].phase = "deleted" /\ rows' = [rows EXCEPT ![i] = Restored(i)]
    \/ rows[i].phase = "deleted" /\ rows' = [rows EXCEPT ![i] = Removed(i)]
    \/ rows' = [rows EXCEPT ![i].readable = FALSE]

\* ... and to the folders and the assignments.
FolderStep ==
    \/ /\ \E f \in Folders, n \in Names : folders' = [folders EXCEPT ![f] = n]
       /\ UNCHANGED assigned
    \/ \E f \in Folders :
          /\ folders' = [folders EXCEPT ![f] = Unnamed]
          /\ assigned' = [i \in Items |-> IF assigned[i] = f THEN NoFolder ELSE assigned[i]]
    \/ \E i \in Items, f \in Folders \cup {NoFolder} :
          /\ f # NoFolder => Exists(f)
          /\ assigned' = [assigned EXCEPT ![i] = f]
          /\ UNCHANGED folders

StoreStep ==
    \/ UNCHANGED stores
    \/ (\E i \in Items : RowStep(i)) /\ UNCHANGED <<folders, assigned>>
    \/ FolderStep /\ UNCHANGED rows

\* What a step may do to the clock and to the commands that run.
CommandStep ==
    /\ now' \in Clock
    /\ \/ UNCHANGED command
       \/ \E p \in Processes, c \in {Idle} \cup Clears \cup Assigning :
             command' = [command EXCEPT ![p] = c]

LEMMA CommandsOfAName ==
  ASSUME IInv, NEW p \in Processes
  PROVE  /\ IsClearing(p) => command[p] \in Clears
         /\ command[p].name = "assign" => command[p] \in Assigning
  <1>1. command[p] \in {Idle} \cup Clears \cup Assigning
    BY DEF IInv, Types
  <1>2. Idle.name = "idle"
    BY DEF Idle
  <1>. QED
    BY <1>1, <1>2 DEF IsClearing, Clears, Assigning

---------------------------------------------------------------------------
(* Every action is such a step.                                            *)

LEMMA OneTransactionSteps ==
  ASSUME IInv, NEW p \in Processes,
         \/ VaultCommands(p) /\ ~AssignCredentialFolder(p)
         \/ NoteCommands(p) /\ ~AssignNoteFolder(p)
         \/ RestoreDeletedItem(p) \/ PermanentlyDeleteItem(p)
  PROVE  StoreStep /\ CommandStep
  <1>1. ASSUME NEW i \in Items, NEW t \in Texts, CreateRow(p, i, t) \/ EditRow(p, i, t)
        PROVE  StoreStep /\ CommandStep
    BY <1>1 DEF CreateRow, EditRow, ChangeRow, Refused, Found, Ends, StoreStep, RowStep,
                CommandStep, IInv, Types
  <1>2. ASSUME NEW i \in Items,
               DeleteRow(p, i) \/ RestoreRow(p, i) \/ PermanentlyDeleteRow(p, i)
        PROVE  StoreStep /\ CommandStep
    BY <1>2 DEF DeleteRow, RestoreRow, PermanentlyDeleteRow, ChangeRow, Refused, Found, Ends,
                StoreStep, RowStep, CommandStep, IInv, Types
  <1>3. ASSUME ReadVault(p) \/ ReadNotes(p) \/ InvalidInput(p)
        PROVE  StoreStep /\ CommandStep
    BY <1>3 DEF ReadVault, ReadNotes, ListRecords, GetRecord, InvalidInput, Refused, Ends,
                StoreStep, CommandStep, IInv, Types
  <1>. QED
    BY <1>1, <1>2, <1>3
    DEF VaultCommands, NoteCommands, CreateVaultRecord, UpdateVaultRecord, DeleteVaultRecord,
        CreateNote, UpdateNote, DeleteNote, RestoreDeletedItem, RestoreNote,
        PermanentlyDeleteItem, PermanentlyDeleteNote, Items

LEMMA FolderSteps ==
  ASSUME IInv, NEW p \in Processes, FolderCommands(p)
  PROVE  StoreStep /\ CommandStep
  <1>1. PICK f \in Folders :
            \/ ReadFolders(p, f)
            \/ \E n \in Names : CreateFolder(p, f, n) \/ RenameFolder(p, f, n)
            \/ DeleteFolder(p, f)
    BY DEF FolderCommands
  <1>2. CASE ReadFolders(p, f)
    BY <1>2 DEF ReadFolders, FolderRefused, Ends, StoreStep, CommandStep, IInv, Types
  <1>3. CASE \E n \in Names : CreateFolder(p, f, n) \/ RenameFolder(p, f, n)
    BY <1>3 DEF CreateFolder, RenameFolder, FolderRefused, ChangeFolders, Ends, StoreStep,
                FolderStep, CommandStep, IInv, Types
  <1>4. CASE DeleteFolder(p, f)
    BY <1>4 DEF DeleteFolder, FolderRefused, ChangeFolders, Ends, StoreStep, FolderStep,
                CommandStep, IInv, Types
  <1>. QED
    BY <1>1, <1>2, <1>3, <1>4

LEMMA AssigningSteps ==
  ASSUME IInv, NEW p \in Processes,
         AssignCredentialFolder(p) \/ AssignNoteFolder(p) \/ FinishAssign(p)
  PROVE  StoreStep /\ CommandStep
  <1>1. ASSUME NEW i \in Items, NEW f \in Folders \cup {NoFolder}, BeginAssign(p, i, f)
        PROVE  StoreStep /\ CommandStep
    <2>1. [name |-> "assign", item |-> i, folder |-> f] \in Assigning
      BY DEF Assigning
    <2>. QED
      BY <1>1, <2>1 DEF BeginAssign, Refused, Ends, StoreStep, CommandStep, IInv, Types
  <1>2. CASE FinishAssign(p)
    <2>1. command[p].item \in Items /\ command[p].folder \in Folders \cup {NoFolder}
      BY <1>2, CommandsOfAName DEF FinishAssign, Assigning
    <2>2. CommandStep
      BY <1>2 DEF FinishAssign, Leaves, CommandStep, IInv, Types
    <2>3. StoreStep
      BY <1>2, <2>1 DEF FinishAssign, StoreStep, FolderStep
    <2>. QED
      BY <2>2, <2>3
  <1>. QED
    BY <1>1, <1>2 DEF AssignCredentialFolder, AssignNoteFolder, Items

LEMMA ReadsDeletedSteps ==
  ASSUME IInv, NEW p \in Processes, NEW name \in {"list", "empty"},
         NEW store \in {"vault", "notes"}, NEW cutoff \in Int,
         ReadsDeleted(p, name, store, cutoff)
  PROVE  CommandStep
  <1>1. ToRemove(name, store, cutoff) \in SUBSET ToDo
    BY DEF ToRemove, Deleted, StoreItems, ToDo, IInv, Types, Rows, Items
  <1>2. [name |-> name, store |-> store, cutoff |-> cutoff,
         todo |-> ToRemove(name, store, cutoff)] \in Clears
    BY <1>1 DEF Clears
  <1>. QED
    BY <1>2 DEF ReadsDeleted, Leaves, CommandStep, IInv, Types

LEMMA ClearingSteps ==
  ASSUME IInv, NEW p \in Processes,
         \/ ListDeletedItems(p) \/ EmptyRecentlyDeleted(p)
         \/ RemoveNext(p) \/ TurnToNotes(p) \/ FinishClearing(p)
  PROVE  StoreStep /\ CommandStep
  <1>1. CASE ListDeletedItems(p) \/ EmptyRecentlyDeleted(p)
    <2>1. now - Retention \in Int
      BY RecordsAssumption DEF IInv, Types, Clock
    <2>. QED
      BY <1>1, <2>1, ReadsDeletedSteps DEF ListDeletedItems, EmptyRecentlyDeleted, StoreStep
  <1>2. CASE TurnToNotes(p)
    <2>1. command[p] \in Clears
      BY <1>2, CommandsOfAName DEF TurnToNotes
    <2>2. command[p].name \in {"list", "empty"} /\ command[p].cutoff \in Int
      BY <2>1 DEF Clears
    <2>. QED
      BY <1>2, <2>2, ReadsDeletedSteps DEF TurnToNotes, StoreStep
  <1>3. CASE FinishClearing(p)
    BY <1>3 DEF FinishClearing, Leaves, StoreStep, CommandStep, IInv, Types
  <1>4. CASE RemoveNext(p)
    <2>1. command[p] \in Clears
      BY <1>4, CommandsOfAName DEF RemoveNext
    <2>2. PICK x \in Newest(command[p].todo) :
             \/ /\ Found(x.item, "deleted")
                /\ ChangeRow(x.item, Removed(x.item))
                /\ command' = [command EXCEPT ![p].todo = @ \ {x}] /\ UNCHANGED now
             \/ (\E why : Leaves(p, why)) /\ UNCHANGED stores
      BY <1>4 DEF RemoveNext
    <2>3. x.item \in Items
      BY <2>1, <2>2 DEF Newest, Clears, ToDo
    <2>4. [command[p] EXCEPT !.todo = @ \ {x}] \in Clears
      BY <2>1 DEF Clears
    <2>5. CASE ChangeRow(x.item, Removed(x.item)) /\ Found(x.item, "deleted")
               /\ command' = [command EXCEPT ![p].todo = @ \ {x}] /\ UNCHANGED now
      <3>1. command' = [command EXCEPT ![p] = [command[p] EXCEPT !.todo = @ \ {x}]]
        BY <2>5
      <3>2. CommandStep
        BY <2>4, <2>5, <3>1 DEF CommandStep, IInv, Types
      <3>3. StoreStep
        BY <2>3, <2>5 DEF ChangeRow, Found, StoreStep, RowStep
      <3>. QED
        BY <3>2, <3>3
    <2>6. CASE (\E why : Leaves(p, why)) /\ UNCHANGED stores
      BY <2>6 DEF Leaves, StoreStep, CommandStep, IInv, Types
    <2>. QED
      BY <2>2, <2>5, <2>6
  <1>. QED
    BY <1>1, <1>2, <1>3, <1>4

LEMMA EveryStep ==
  ASSUME IInv, [Next]_vars
  PROVE  StoreStep /\ CommandStep
  <1>1. CASE Tick
    BY <1>1, RecordsAssumption
    DEF Tick, StoreStep, CommandStep, IInv, Types, Clock
  <1>2. CASE UNCHANGED vars
    BY <1>2 DEF vars, stores, StoreStep, CommandStep, IInv, Types
  <1>3. ASSUME NEW i \in Items, RowIsDamaged(i)
        PROVE  StoreStep /\ CommandStep
    BY <1>3 DEF RowIsDamaged, StoreStep, RowStep, CommandStep, IInv, Types
  <1>4. ASSUME NEW p \in Processes, Unlock(p) \/ Lock(p) \/ ProcessEnds(p)
        PROVE  StoreStep /\ CommandStep
    BY <1>4 DEF Unlock, Lock, ProcessEnds, StoreStep, CommandStep, IInv, Types
  <1>5. ASSUME NEW p \in Processes, Process(p), ~(Unlock(p) \/ Lock(p) \/ ProcessEnds(p))
        PROVE  StoreStep /\ CommandStep
    <2>1. CASE FolderCommands(p)
      BY <2>1, FolderSteps
    <2>2. CASE AssignCredentialFolder(p) \/ AssignNoteFolder(p) \/ FinishAssign(p)
      BY <2>2, AssigningSteps
    <2>3. CASE \/ ListDeletedItems(p) \/ EmptyRecentlyDeleted(p)
               \/ RemoveNext(p) \/ TurnToNotes(p) \/ FinishClearing(p)
      BY <2>3, ClearingSteps
    <2>. QED
      BY <1>5, <2>1, <2>2, <2>3, OneTransactionSteps
      DEF Process, VaultCommands, NoteCommands, DeletedItemCommands, Continues
  <1>. QED
    BY <1>1, <1>2, <1>3, <1>4, <1>5 DEF Next

---------------------------------------------------------------------------
LEMMA InitInv ==
  ASSUME Init
  PROVE  IInv
  <1>1. PICK t \in Texts :
           rows = [i \in Items |-> [phase |-> "none", text |-> t,
                                    deletedAt |-> NotDeleted, readable |-> TRUE]]
    BY DEF Init
  <1>2. rows \in [Items -> Rows]
    BY <1>1 DEF Rows, Phases, NotDeleted
  <1>3. Types
    <2>1. now \in Clock
      BY RecordsAssumption DEF Init, Clock
    <2>2. command \in [Processes -> {Idle} \cup Clears \cup Assigning]
      BY DEF Init
    <2>. QED
      BY <1>2, <2>1, <2>2 DEF Init, Types
  <1>4. AssignmentsNameFolders
    BY DEF Init, AssignmentsNameFolders
  <1>. QED
    BY <1>3, <1>4 DEF IInv

\* A changed row is a row again.
LEMMA RowsStayRows ==
  ASSUME IInv, NEW i \in Items, RowStep(i)
  PROVE  rows' \in [Items -> Rows]
  <1>1. rows[i] \in Rows /\ now \in Clock /\ rows \in [Items -> Rows]
    BY DEF IInv, Types
  <1>2. \A t \in Texts : /\ Edited(i, t) \in Rows
                         /\ [phase |-> "active", text |-> t, deletedAt |-> NotDeleted,
                             readable |-> TRUE] \in Rows
    BY <1>1 DEF Edited, Rows, Phases
  <1>3. SoftDeleted(i) \in Rows
    BY <1>1 DEF SoftDeleted, Rows, Phases
  <1>4. Restored(i) \in Rows /\ Removed(i) \in Rows
    BY <1>1 DEF Restored, Removed, Rows, Phases
  <1>5. [rows[i] EXCEPT !.readable = FALSE] \in Rows
    BY <1>1 DEF Rows
  <1>6. CASE rows' = [rows EXCEPT ![i].readable = FALSE]
    <2>1. rows' = [rows EXCEPT ![i] = [rows[i] EXCEPT !.readable = FALSE]]
      BY <1>6
    <2>. QED
      BY <1>1, <1>5, <2>1
  <1>. QED
    BY <1>1, <1>2, <1>3, <1>4, <1>6 DEF RowStep

LEMMA NextInv ==
  ASSUME IInv, [Next]_vars
  PROVE  IInv'
  <1>1. StoreStep /\ CommandStep
    BY EveryStep
  <1>2. rows' \in [Items -> Rows]
    BY <1>1, RowsStayRows DEF StoreStep, stores, IInv, Types
  <1>3. command' \in [Processes -> {Idle} \cup Clears \cup Assigning]
    BY <1>1 DEF CommandStep, IInv, Types
  <1>. DEFINE Fits == /\ folders \in [Folders -> Names \cup {Unnamed}]
                      /\ assigned \in [Items -> Folders \cup {NoFolder}]
                      /\ AssignmentsNameFolders
  <1>4. Fits'
    <2>1. CASE UNCHANGED <<folders, assigned>>
      BY <2>1 DEF IInv, Types, AssignmentsNameFolders, Exists
    <2>2. ASSUME NEW f \in Folders, NEW n \in Names,
                 folders' = [folders EXCEPT ![f] = n], UNCHANGED assigned
          PROVE  Fits'
      BY <2>2, RecordsAssumption
      DEF IInv, Types, AssignmentsNameFolders, Exists
    <2>3. ASSUME NEW f \in Folders,
                 folders' = [folders EXCEPT ![f] = Unnamed],
                 assigned' = [i \in Items |-> IF assigned[i] = f THEN NoFolder ELSE assigned[i]]
          PROVE  Fits'
      BY <2>3 DEF IInv, Types, AssignmentsNameFolders, Exists
    <2>4. ASSUME NEW i \in Items, NEW f \in Folders \cup {NoFolder},
                 f # NoFolder => Exists(f),
                 assigned' = [assigned EXCEPT ![i] = f],
                 UNCHANGED folders
          PROVE  Fits'
      BY <2>4 DEF IInv, Types, AssignmentsNameFolders, Exists
    <2>. QED
      BY <1>1, <2>1, <2>2, <2>3, <2>4 DEF StoreStep, FolderStep, stores
  <1>. QED
    BY <1>1, <1>2, <1>3, <1>4 DEF IInv, Types, CommandStep

\* The invariant holds for any number of instances, records, folders and names.
THEOREM InductiveInvariant == Spec => []IInv
  BY InitInv, NextInv, PTL DEF Spec

\* No item is ever in a folder that does not exist, although the folder may be deleted
\* by another instance between the check of an assignment and its write
\* (folders/mod.rs: the foreign key and ON DELETE CASCADE).
THEOREM AssignmentsAreSound == Spec => []AssignmentsNameFolders
  BY InductiveInvariant, PTL DEF IInv

---------------------------------------------------------------------------
(* The refinement.                                                         *)

phaseBar == [i \in Items |-> rows[i].phase]
textBar == [i \in Items |-> rows[i].text]

LEMMA RowsChangeOneAtATime ==
  ASSUME IInv, NEW i \in Items, \A j \in Items \ {i} : rows'[j] = rows[j]
  PROVE  /\ phaseBar' = [phaseBar EXCEPT ![i] = rows'[i].phase]
         /\ textBar' = [textBar EXCEPT ![i] = rows'[i].text]
  <1>1. /\ phaseBar' = [j \in Items |-> rows'[j].phase]
        /\ textBar' = [j \in Items |-> rows'[j].text]
    BY DEF phaseBar, textBar
  <1>2. phaseBar' = [phaseBar EXCEPT ![i] = rows'[i].phase]
    BY <1>1 DEF phaseBar
  <1>3. textBar' = [textBar EXCEPT ![i] = rows'[i].text]
    BY <1>1 DEF textBar
  <1>. QED
    BY <1>2, <1>3

\* Each change of a row is a step of its life.
LEMMA RowLives ==
  ASSUME IInv, NEW i \in Items, RowStep(i)
  PROVE  \/ Life!Next
         \/ phaseBar' = phaseBar /\ textBar' = textBar
  <1>1. /\ rows \in [Items -> Rows] /\ rows[i] \in Rows
        /\ phaseBar[i] = rows[i].phase /\ textBar[i] = rows[i].text
    BY DEF IInv, Types, phaseBar, textBar
  <1>2. /\ phaseBar = [phaseBar EXCEPT ![i] = rows[i].phase]
        /\ textBar = [textBar EXCEPT ![i] = rows[i].text]
    BY DEF phaseBar, textBar
  <1>3. ASSUME NEW t \in Texts, rows[i].phase = "none",
               rows' = [rows EXCEPT ![i] = [phase |-> "active", text |-> t,
                                            deletedAt |-> NotDeleted, readable |-> TRUE]]
        PROVE  Life!Create(i, t)
    <2>1. /\ rows'[i] = [phase |-> "active", text |-> t, deletedAt |-> NotDeleted,
                         readable |-> TRUE]
          /\ \A j \in Items \ {i} : rows'[j] = rows[j]
      BY <1>1, <1>3
    <2>2. rows'[i].phase = "active" /\ rows'[i].text = t
      BY <1>1, <2>1
    <2>. QED
      BY <1>1, <1>2, <1>3, <2>1, <2>2, RowsChangeOneAtATime
      DEF Life!Create, Life!Moves, phaseBar, textBar
  <1>4. ASSUME NEW t \in Texts, rows[i].phase = "active",
               rows' = [rows EXCEPT ![i] = Edited(i, t)]
        PROVE  Life!Edit(i, t)
    <2>1. rows'[i] = Edited(i, t) /\ \A j \in Items \ {i} : rows'[j] = rows[j]
      BY <1>1, <1>4
    <2>2. rows'[i].phase = rows[i].phase /\ rows'[i].text = t
      BY <1>1, <2>1 DEF Edited, Rows
    <2>. QED
      BY <1>1, <1>2, <1>4, <2>1, <2>2, RowsChangeOneAtATime DEF Life!Edit, phaseBar, textBar
  <1>5. ASSUME rows[i].phase = "active", rows' = [rows EXCEPT ![i] = SoftDeleted(i)]
        PROVE  Life!Discard(i)
    <2>1. rows'[i] = SoftDeleted(i) /\ \A j \in Items \ {i} : rows'[j] = rows[j]
      BY <1>1, <1>5
    <2>2. rows'[i].phase = "deleted" /\ rows'[i].text = rows[i].text
      BY <1>1, <2>1 DEF SoftDeleted, Rows
    <2>. QED
      BY <1>1, <1>2, <1>5, <2>1, <2>2, RowsChangeOneAtATime
      DEF Life!Discard, Life!Moves, phaseBar, textBar
  <1>6. ASSUME rows[i].phase = "deleted", rows' = [rows EXCEPT ![i] = Restored(i)]
        PROVE  Life!Recover(i)
    <2>1. rows'[i] = Restored(i) /\ \A j \in Items \ {i} : rows'[j] = rows[j]
      BY <1>1, <1>6
    <2>2. rows'[i].phase = "active" /\ rows'[i].text = rows[i].text
      BY <1>1, <2>1 DEF Restored, Rows
    <2>. QED
      BY <1>1, <1>2, <1>6, <2>1, <2>2, RowsChangeOneAtATime
      DEF Life!Recover, Life!Moves, phaseBar, textBar
  <1>7. ASSUME rows[i].phase = "deleted", rows' = [rows EXCEPT ![i] = Removed(i)]
        PROVE  Life!Remove(i)
    <2>1. rows'[i] = Removed(i) /\ \A j \in Items \ {i} : rows'[j] = rows[j]
      BY <1>1, <1>7
    <2>2. rows'[i].phase = "gone" /\ rows'[i].text = rows[i].text
      BY <1>1, <2>1 DEF Removed, Rows
    <2>. QED
      BY <1>1, <1>2, <1>7, <2>1, <2>2, RowsChangeOneAtATime
      DEF Life!Remove, Life!Moves, phaseBar, textBar
  <1>8. ASSUME rows' = [rows EXCEPT ![i].readable = FALSE]
        PROVE  phaseBar' = phaseBar /\ textBar' = textBar
    <2>1. /\ rows'[i] = [rows[i] EXCEPT !.readable = FALSE]
          /\ \A j \in Items \ {i} : rows'[j] = rows[j]
      BY <1>1, <1>8
    <2>2. rows'[i].phase = rows[i].phase /\ rows'[i].text = rows[i].text
      BY <1>1, <2>1 DEF Rows
    <2>. QED
      BY <1>2, <2>1, <2>2, RowsChangeOneAtATime
  <1>. QED
    BY <1>3, <1>4, <1>5, <1>6, <1>7, <1>8 DEF RowStep, Life!Next

\* The stores implement the life cycle of a record: whatever interleaving of commands,
\* purges and instances, no record is edited once deleted, removed before it was
\* deleted, changed on its way to Recently Deleted and back, or brought back.
THEOREM StoresImplementLife == Spec => Lifecycle
  <1>1. ASSUME Init
        PROVE  Life!Init
    BY <1>1 DEF Init, Life!Init
  <1>2. ASSUME IInv, [Next]_vars
        PROVE  [Life!Next]_<<phaseBar, textBar>>
    <2>1. StoreStep
      BY <1>2, EveryStep
    <2>2. CASE UNCHANGED rows
      BY <2>2 DEF phaseBar, textBar
    <2>3. CASE \E i \in Items : RowStep(i)
      BY <1>2, <2>3, RowLives
    <2>. QED
      BY <2>1, <2>2, <2>3 DEF StoreStep, stores
  <1>3. ASSUME IInv, [Next]_vars
        PROVE  [Life!Next]_<<[i \in Items |-> rows[i].phase], [i \in Items |-> rows[i].text]>>
    BY <1>2, <1>3 DEF phaseBar, textBar
  <1>. QED
    BY <1>1, <1>3, InductiveInvariant, PTL DEF Spec, Lifecycle, Life!Spec

---------------------------------------------------------------------------
(* The types.                                                              *)

\* A deleted row has the time of its deletion.
DeletedAreDated == \A i \in Deleted(Items) : rows[i].deletedAt \in Clock

\* What a step leaves of the sessions, the outcomes and the history.
Bookkept ==
    /\ unlocked' \in [Processes -> BOOLEAN]
    /\ outcome' \in [Processes -> Outcomes]
    /\ filedIn' \in [Items -> Folders \cup {NoFolder}]

LEMMA EndsWell ==
  ASSUME TypeOK, NEW p \in Processes, NEW result \in Outcomes,
         Ends(p, result) \/ Leaves(p, result)
  PROVE  /\ unlocked' \in [Processes -> BOOLEAN]
         /\ outcome' \in [Processes -> Outcomes]
         /\ command' \in [Processes -> {Idle} \cup Clearing \cup Assigning]
  BY DEF TypeOK, Ends, Leaves, Report

LEMMA RefusedWell ==
  ASSUME TypeOK, NEW p \in Processes, NEW i \in Items, NEW expected \in Phases,
         Refused(p, i, expected)
  PROVE  Bookkept /\ command' = command
  <1>1. Refusals(i, expected) \subseteq Outcomes
    BY DEF Refusals, Outcomes
  <1>2. PICK why \in Outcomes : Ends(p, why) /\ filedIn' = filedIn
    BY <1>1 DEF Refused
  <1>. QED
    BY <1>2, EndsWell DEF Bookkept, TypeOK, Ends

LEMMA OneTransactionTypes ==
  ASSUME TypeOK, NEW p \in Processes,
         \/ VaultCommands(p) /\ ~AssignCredentialFolder(p)
         \/ NoteCommands(p) /\ ~AssignNoteFolder(p)
         \/ RestoreDeletedItem(p) \/ PermanentlyDeleteItem(p)
         \/ FolderCommands(p)
  PROVE  Bookkept /\ command' = command
  <1>. USE DEF Bookkept, TypeOK
  <1>0. {"ok", "NotFound", "DataDamaged", "StorageUnavailable", "InvalidInput",
         "DuplicateName"} \subseteq Outcomes
    BY DEF Outcomes
  <1>1. ASSUME NEW result \in Outcomes, Ends(p, result), UNCHANGED filedIn
        PROVE  Bookkept /\ command' = command
    BY <1>1 DEF Ends, Report
  <1>2. ASSUME NEW i \in Items, NEW t \in Texts, CreateRow(p, i, t) \/ EditRow(p, i, t)
        PROVE  Bookkept /\ command' = command
    BY <1>0, <1>1, <1>2, RefusedWell DEF CreateRow, EditRow, Phases
  <1>3. ASSUME NEW i \in Items,
               DeleteRow(p, i) \/ RestoreRow(p, i) \/ PermanentlyDeleteRow(p, i)
        PROVE  Bookkept /\ command' = command
    <2>1. CASE Refused(p, i, "active") \/ Refused(p, i, "deleted")
      BY <2>1, RefusedWell DEF Phases
    <2>2. CASE Ends(p, "ok") /\ (filedIn' = [filedIn EXCEPT ![i] = assigned[i]] \/ Forget(i))
      BY <1>0, <2>2 DEF Ends, Report, Forget
    <2>. QED
      BY <1>3, <2>1, <2>2 DEF DeleteRow, RestoreRow, PermanentlyDeleteRow
  <1>4. ASSUME ReadVault(p) \/ ReadNotes(p) \/ InvalidInput(p)
        PROVE  Bookkept /\ command' = command
    <2>1. CASE InvalidInput(p)
      BY <1>0, <1>1, <2>1 DEF InvalidInput
    <2>2. ASSUME NEW S \in {Credentials, Notes}, ListRecords(p, S)
          PROVE  Bookkept /\ command' = command
      <3>1. ListResults(S, "active") \subseteq Outcomes
        BY <1>0 DEF ListResults
      <3>. QED
        BY <1>1, <2>2, <3>1 DEF ListRecords
    <2>3. ASSUME NEW i \in Items, GetRecord(p, i)
          PROVE  Bookkept /\ command' = command
      BY <1>0, <1>1, <2>3, RefusedWell DEF GetRecord, Phases
    <2>. QED
      BY <1>4, <2>1, <2>2, <2>3 DEF ReadVault, ReadNotes, Items
  <1>5. ASSUME FolderCommands(p)
        PROVE  Bookkept /\ command' = command
    <2>1. ASSUME NEW whys \in SUBSET {"ok", "NotFound", "DuplicateName"}, FolderRefused(p, whys)
          PROVE  Bookkept /\ command' = command
      BY <1>0, <1>1, <2>1 DEF FolderRefused
    <2>2. CASE ChangeFolders(p)
      BY <1>0, <1>1, <2>2 DEF ChangeFolders
    <2>3. ASSUME NEW f \in Folders, ReadFolders(p, f)
          PROVE  Bookkept /\ command' = command
      BY <2>1, <2>3 DEF ReadFolders
    <2>. QED
      BY <1>5, <2>1, <2>2, <2>3 DEF FolderCommands, CreateFolder, RenameFolder, DeleteFolder
  <1>. QED
    BY <1>2, <1>3, <1>4, <1>5
    DEF VaultCommands, NoteCommands, CreateVaultRecord, UpdateVaultRecord, DeleteVaultRecord,
        CreateNote, UpdateNote, DeleteNote, RestoreDeletedItem, RestoreNote,
        PermanentlyDeleteItem, PermanentlyDeleteNote, Items

LEMMA ReadsDeletedTypes ==
  ASSUME TypeOK, DeletedAreDated, NEW p \in Processes, NEW name \in {"list", "empty"},
         NEW store \in {"vault", "notes"}, NEW cutoff \in -Retention..MaxClock,
         ReadsDeleted(p, name, store, cutoff), UNCHANGED filedIn
  PROVE  /\ Bookkept
         /\ command' \in [Processes -> {Idle} \cup Clearing \cup Assigning]
  <1>1. ToRemove(name, store, cutoff) \in SUBSET Listed
    BY DEF ToRemove, Deleted, StoreItems, Listed, DeletedAreDated, Items
  <1>2. [name |-> name, store |-> store, cutoff |-> cutoff,
         todo |-> ToRemove(name, store, cutoff)] \in Clearing
    BY <1>1 DEF Clearing
  <1>3. ListResults(StoreItems(store), "deleted") \subseteq Outcomes
    BY DEF ListResults, Outcomes
  <1>4. PICK result \in Outcomes :
           \/ /\ command' = [command EXCEPT ![p] =
                     [name |-> name, store |-> store, cutoff |-> cutoff,
                      todo |-> ToRemove(name, store, cutoff)]]
              /\ UNCHANGED <<now, unlocked, outcome>>
           \/ Leaves(p, result)
    BY <1>3 DEF ReadsDeleted
  <1>. QED
    BY <1>2, <1>4, EndsWell DEF Bookkept, TypeOK

LEMMA ClearingTypes ==
  ASSUME TypeOK, DeletedAreDated, NEW p \in Processes,
         \/ ListDeletedItems(p) \/ EmptyRecentlyDeleted(p)
         \/ RemoveNext(p) \/ TurnToNotes(p) \/ FinishClearing(p)
  PROVE  /\ Bookkept
         /\ command' \in [Processes -> {Idle} \cup Clearing \cup Assigning]
  <1>0. IsClearing(p) => command[p] \in Clearing
    BY DEF IsClearing, TypeOK, Idle, Assigning
  <1>1. CASE ListDeletedItems(p) \/ EmptyRecentlyDeleted(p)
    <2>1. now - Retention \in -Retention..MaxClock
      BY RecordsAssumption DEF TypeOK, Clock
    <2>. QED
      BY <1>1, <2>1, ReadsDeletedTypes DEF ListDeletedItems, EmptyRecentlyDeleted
  <1>2. CASE TurnToNotes(p)
    <2>1. command[p].name \in {"list", "empty"} /\ command[p].cutoff \in -Retention..MaxClock
      BY <1>0, <1>2 DEF TurnToNotes, Clearing
    <2>. QED
      BY <1>2, <2>1, ReadsDeletedTypes DEF TurnToNotes
  <1>3. CASE FinishClearing(p)
    <2>1. ListResults(Items, "deleted") \cup {"ok"} \subseteq Outcomes
      BY DEF ListResults, Outcomes
    <2>2. PICK result \in Outcomes : Leaves(p, result) /\ filedIn' = filedIn
      BY <1>3, <2>1 DEF FinishClearing
    <2>. QED
      BY <2>2, EndsWell DEF Bookkept, TypeOK
  <1>4. CASE RemoveNext(p)
    <2>1. command[p] \in Clearing
      BY <1>0, <1>4 DEF RemoveNext
    <2>2. PICK x \in Listed :
             \/ /\ Forget(x.item)
                /\ command' = [command EXCEPT ![p].todo = @ \ {x}]
                /\ UNCHANGED <<now, unlocked, outcome>>
             \/ \E why \in Refusals(x.item, "deleted") : Leaves(p, why) /\ UNCHANGED filedIn
      <3>1. command[p].todo \subseteq Listed
        BY <2>1 DEF Clearing
      <3>. QED
        BY <1>4, <3>1 DEF RemoveNext, Newest
    <2>3. CASE /\ Forget(x.item)
               /\ command' = [command EXCEPT ![p].todo = @ \ {x}]
               /\ UNCHANGED <<now, unlocked, outcome>>
      <3>1. [command[p] EXCEPT !.todo = @ \ {x}] \in Clearing
        BY <2>1 DEF Clearing
      <3>2. command' = [command EXCEPT ![p] = [command[p] EXCEPT !.todo = @ \ {x}]]
        BY <2>3
      <3>. QED
        BY <2>3, <3>1, <3>2 DEF Forget, Listed, Bookkept, TypeOK
    <2>4. CASE \E why \in Refusals(x.item, "deleted") : Leaves(p, why) /\ UNCHANGED filedIn
      <3>1. Refusals(x.item, "deleted") \subseteq Outcomes
        BY DEF Refusals, Outcomes
      <3>2. PICK why \in Outcomes : Leaves(p, why) /\ filedIn' = filedIn
        BY <2>4, <3>1
      <3>. QED
        BY <3>2, EndsWell DEF Bookkept, TypeOK
    <2>. QED
      BY <2>2, <2>3, <2>4
  <1>. QED
    BY <1>1, <1>2, <1>3, <1>4

LEMMA AssigningTypes ==
  ASSUME TypeOK, NEW p \in Processes,
         AssignCredentialFolder(p) \/ AssignNoteFolder(p) \/ FinishAssign(p)
  PROVE  /\ Bookkept
         /\ command' \in [Processes -> {Idle} \cup Clearing \cup Assigning]
  <1>1. ASSUME NEW i \in Items, NEW f \in Folders \cup {NoFolder}, BeginAssign(p, i, f)
        PROVE  /\ Bookkept
               /\ command' \in [Processes -> {Idle} \cup Clearing \cup Assigning]
    <2>1. [name |-> "assign", item |-> i, folder |-> f] \in Assigning
      BY DEF Assigning
    <2>. QED
      BY <1>1, <2>1, RefusedWell DEF BeginAssign, Phases, Bookkept, TypeOK
  <1>2. CASE FinishAssign(p)
    <2>1. PICK result \in Outcomes : Leaves(p, result) /\ filedIn' = filedIn
      BY <1>2 DEF FinishAssign, Outcomes
    <2>. QED
      BY <2>1, EndsWell DEF Bookkept, TypeOK
  <1>. QED
    BY <1>1, <1>2 DEF AssignCredentialFolder, AssignNoteFolder, Items

LEMMA RowChanges ==
  ASSUME IInv, NEW i \in Items, RowStep(i)
  PROVE  /\ \A j \in Items \ {i} : rows'[j] = rows[j]
         /\ \/ rows'[i].phase \in {"active", "gone"}
            \/ /\ rows'[i].phase = "deleted"
               /\ rows[i].phase = "active" /\ rows'[i].deletedAt = now
            \/ rows'[i].phase = rows[i].phase /\ rows'[i].deletedAt = rows[i].deletedAt
  <1>1. rows \in [Items -> Rows] /\ rows[i] \in Rows
    BY DEF IInv, Types
  <1>2. \A j \in Items \ {i} : rows'[j] = rows[j]
    BY <1>1 DEF RowStep
  <1>3. CASE \E t \in Texts :
               rows' = [rows EXCEPT ![i] = [phase |-> "active", text |-> t,
                                            deletedAt |-> NotDeleted, readable |-> TRUE]]
    BY <1>1, <1>2, <1>3
  <1>4. ASSUME NEW t \in Texts, rows[i].phase = "active", rows' = [rows EXCEPT ![i] = Edited(i, t)]
        PROVE  rows'[i].phase = "active"
    <2>1. rows'[i] = Edited(i, t)
      BY <1>1, <1>4
    <2>. QED
      BY <1>1, <1>4, <2>1 DEF Edited, Rows
  <1>5. CASE rows' = [rows EXCEPT ![i] = SoftDeleted(i)] /\ rows[i].phase = "active"
    <2>1. rows'[i] = SoftDeleted(i)
      BY <1>1, <1>5
    <2>2. rows'[i].phase = "deleted" /\ rows'[i].deletedAt = now
      BY <1>1, <2>1 DEF SoftDeleted, Rows
    <2>. QED
      BY <1>2, <1>5, <2>2
  <1>6. CASE rows' = [rows EXCEPT ![i] = Restored(i)] \/ rows' = [rows EXCEPT ![i] = Removed(i)]
    <2>1. rows'[i] \in {Restored(i), Removed(i)}
      BY <1>1, <1>6
    <2>2. rows'[i].phase \in {"active", "gone"}
      BY <1>1, <2>1 DEF Restored, Removed, Rows
    <2>. QED
      BY <1>2, <2>2
  <1>7. CASE rows' = [rows EXCEPT ![i].readable = FALSE]
    <2>1. rows'[i] = [rows[i] EXCEPT !.readable = FALSE]
      BY <1>1, <1>7
    <2>2. rows'[i].phase = rows[i].phase /\ rows'[i].deletedAt = rows[i].deletedAt
      BY <1>1, <2>1 DEF Rows
    <2>. QED
      BY <1>2, <2>2
  <1>. QED
    BY <1>2, <1>3, <1>4, <1>5, <1>6, <1>7 DEF RowStep

LEMMA TypesStay ==
  ASSUME IInv, TypeOK, DeletedAreDated, [Next]_vars
  PROVE  TypeOK' /\ DeletedAreDated'
  <1>1. IInv' /\ StoreStep
    BY NextInv, EveryStep
  <1>2. /\ Bookkept
        /\ command' \in [Processes -> {Idle} \cup Clearing \cup Assigning]
    <2>1. CASE Tick \/ UNCHANGED vars \/ (\E i \in Items : RowIsDamaged(i))
      BY <2>1 DEF Tick, vars, RowIsDamaged, Bookkept, TypeOK
    <2>2. ASSUME NEW p \in Processes, Unlock(p) \/ Lock(p) \/ ProcessEnds(p)
          PROVE  /\ Bookkept
                 /\ command' \in [Processes -> {Idle} \cup Clearing \cup Assigning]
      BY <2>2 DEF Unlock, Lock, ProcessEnds, Bookkept, TypeOK, Outcomes
    <2>3. ASSUME NEW p \in Processes, Process(p), ~(Unlock(p) \/ Lock(p) \/ ProcessEnds(p))
          PROVE  /\ Bookkept
                 /\ command' \in [Processes -> {Idle} \cup Clearing \cup Assigning]
      <3>1. CASE AssignCredentialFolder(p) \/ AssignNoteFolder(p) \/ FinishAssign(p)
        BY <3>1, AssigningTypes
      <3>2. CASE \/ ListDeletedItems(p) \/ EmptyRecentlyDeleted(p)
                 \/ RemoveNext(p) \/ TurnToNotes(p) \/ FinishClearing(p)
        BY <3>2, ClearingTypes
      <3>3. CASE \/ VaultCommands(p) /\ ~AssignCredentialFolder(p)
                 \/ NoteCommands(p) /\ ~AssignNoteFolder(p)
                 \/ RestoreDeletedItem(p) \/ PermanentlyDeleteItem(p)
                 \/ FolderCommands(p)
        BY <3>3, OneTransactionTypes DEF TypeOK
      <3>. QED
        BY <2>3, <3>1, <3>2, <3>3
        DEF Process, VaultCommands, NoteCommands, DeletedItemCommands, Continues
    <2>. QED
      BY <2>1, <2>2, <2>3 DEF Next
  <1>3. TypeOK'
    BY <1>1, <1>2 DEF IInv, Types, Bookkept, TypeOK
  <1>4. DeletedAreDated'
    <2>1. CASE UNCHANGED rows
      BY <2>1 DEF DeletedAreDated, Deleted
    <2>2. ASSUME NEW i \in Items, RowStep(i)
          PROVE  DeletedAreDated'
      <3>1. rows[i] \in Rows /\ now \in Clock
        BY DEF TypeOK
      <3>2. /\ \A j \in Items \ {i} : rows'[j] = rows[j]
            /\ rows'[i].phase = "deleted" => rows'[i].deletedAt \in {now, rows[i].deletedAt}
            /\ rows'[i].phase = "deleted" /\ rows[i].phase # "deleted" => rows'[i].deletedAt = now
        BY <2>2, RowChanges
      <3>. QED
        BY <3>1, <3>2, RowChanges DEF DeletedAreDated, Deleted
    <2>. QED
      BY <1>1, <2>1, <2>2 DEF StoreStep, stores
  <1>. QED
    BY <1>3, <1>4

\* Every state is well formed, for any number of instances.
THEOREM RecordsAreTyped == Spec => [](TypeOK /\ DeletedAreDated)
  <1>1. ASSUME Init PROVE TypeOK /\ DeletedAreDated
    <2>1. IInv
      BY <1>1, InitInv
    <2>2. DeletedAreDated
      BY <1>1 DEF Init, DeletedAreDated, Deleted
    <2>. QED
      BY <1>1, <2>1, <2>2 DEF Init, IInv, Types, TypeOK, Outcomes
  <1>. QED
    BY <1>1, TypesStay, InductiveInvariant, PTL DEF Spec

---------------------------------------------------------------------------
(* One instance that runs alone.                                           *)

\* The invariant of one instance that runs alone: the others do nothing; ...
OthersAreIdle == \A p \in Processes \ {First} : command[p] = Idle

\* ... what it assigns is active, ...
AssignsActive ==
    command[First].name = "assign" => rows[command[First].item].phase = "active"

\* ... what it has listed is deleted, since then, and overdue if only that is purged, ...
ListedAreDeleted ==
    IsClearing(First) =>
        /\ \A x \in command[First].todo :
              /\ rows[x.item].phase = "deleted"
              /\ rows[x.item].deletedAt = x.deletedAt
              /\ command[First].name = "list" => x.deletedAt < command[First].cutoff
        /\ command[First].cutoff + Retention <= now

\* ... and what is deleted is listed, in the store it comes to next, or not overdue.
DeletedAreListed ==
    IsClearing(First) =>
        \A i \in Deleted(Items) :
            \/ command[First].store = "vault" /\ i \in Notes
            \/ \E x \in command[First].todo : x.item = i
            \/ command[First].name = "list" /\ rows[i].deletedAt >= command[First].cutoff

Exact == /\ OthersAreIdle /\ AssignsActive /\ ListedAreDeleted /\ DeletedAreListed
         /\ DeletedItemsKeepTheirFolder

OneInv == IInv /\ TypeOK /\ DeletedAreDated /\ (alone => Exact)

LEMMA ItsCommand ==
  ASSUME TypeOK
  PROVE  /\ IsClearing(First) => command[First] \in Clearing
         /\ command[First].name = "assign" => command[First] \in Assigning
         /\ command[First] = Idle => ~IsClearing(First) /\ command[First].name # "assign"
  <1>1. command[First] \in {Idle} \cup Clearing \cup Assigning
    BY MCRecordsAssumption DEF TypeOK
  <1>. QED
    BY <1>1 DEF IsClearing, Idle, Clearing, Assigning

\* Where one item changes, and it is not deleted then or in its folder, all are.
LEMMA FoldersAreKept ==
  ASSUME TypeOK, DeletedItemsKeepTheirFolder, NEW i \in Items,
         \A j \in Items \ {i} : /\ rows'[j] = rows[j] /\ filedIn'[j] = filedIn[j]
                                /\ assigned'[j] \in {assigned[j], NoFolder},
         rows'[i].phase = "deleted" => assigned'[i] \in {filedIn'[i], NoFolder}
  PROVE  DeletedItemsKeepTheirFolder'
  BY DEF DeletedItemsKeepTheirFolder, Deleted

\* A deleted item stays in its folder until that is deleted.
LEMMA OneTransactionKeeps ==
  ASSUME IInv, TypeOK, DeletedItemsKeepTheirFolder, NEW p \in Processes,
         \/ VaultCommands(p) /\ ~AssignCredentialFolder(p)
         \/ NoteCommands(p) /\ ~AssignNoteFolder(p)
         \/ RestoreDeletedItem(p) \/ PermanentlyDeleteItem(p)
         \/ FolderCommands(p)
  PROVE  DeletedItemsKeepTheirFolder'
  <1>1. ASSUME UNCHANGED <<stores, filedIn>>
        PROVE  DeletedItemsKeepTheirFolder'
    BY <1>1 DEF stores, DeletedItemsKeepTheirFolder, Deleted
  <1>2. ASSUME NEW i \in Items, NEW t \in Texts, CreateRow(p, i, t) \/ EditRow(p, i, t)
        PROVE  DeletedItemsKeepTheirFolder'
    <2>1. CASE Refused(p, i, "active")
      BY <1>1, <2>1 DEF Refused
    <2>2. CASE \E row : /\ row.phase = "active" /\ ChangeRow(i, row) /\ filedIn' = filedIn
      <3>1. /\ \A j \in Items \ {i} : rows'[j] = rows[j]
            /\ rows'[i].phase = "active"
            /\ assigned' = assigned /\ filedIn' = filedIn
        BY <2>2 DEF ChangeRow, TypeOK
      <3>. QED
        BY <3>1, FoldersAreKept
    <2>3. rows[i].phase = "active" => Edited(i, t).phase = "active"
      BY DEF Edited, TypeOK, Rows
    <2>4. [phase |-> "active", text |-> t, deletedAt |-> NotDeleted, readable |-> TRUE].phase
             = "active"
      OBVIOUS
    <2>. QED
      BY <1>2, <2>1, <2>2, <2>3, <2>4 DEF CreateRow, EditRow, Found
  <1>3. ASSUME NEW i \in Items,
               DeleteRow(p, i) \/ RestoreRow(p, i) \/ PermanentlyDeleteRow(p, i)
        PROVE  DeletedItemsKeepTheirFolder'
    <2>1. CASE Refused(p, i, "active") \/ Refused(p, i, "deleted")
      BY <1>1, <2>1 DEF Refused
    <2>2. CASE ChangeRow(i, SoftDeleted(i)) /\ filedIn' = [filedIn EXCEPT ![i] = assigned[i]]
      <3>1. /\ \A j \in Items \ {i} : rows'[j] = rows[j] /\ filedIn'[j] = filedIn[j]
            /\ filedIn'[i] = assigned[i] /\ assigned' = assigned
        BY <2>2 DEF ChangeRow, TypeOK
      <3>. QED
        BY <3>1, FoldersAreKept
    <2>3. CASE (ChangeRow(i, Restored(i)) \/ ChangeRow(i, Removed(i))) /\ Forget(i)
      <3>1. /\ \A j \in Items \ {i} : rows'[j] = rows[j] /\ filedIn'[j] = filedIn[j]
            /\ rows'[i] \in {Restored(i), Removed(i)} /\ assigned' = assigned
        BY <2>3 DEF ChangeRow, Forget, TypeOK
      <3>2. Restored(i).phase = "active" /\ Removed(i).phase = "gone"
        BY DEF Restored, Removed, TypeOK, Rows
      <3>3. rows'[i].phase # "deleted"
        BY <3>1, <3>2
      <3>. QED
        BY <3>1, <3>3, FoldersAreKept
    <2>. QED
      BY <1>3, <2>1, <2>2, <2>3 DEF DeleteRow, RestoreRow, PermanentlyDeleteRow
  <1>4. ASSUME ReadVault(p) \/ ReadNotes(p) \/ InvalidInput(p)
        PROVE  DeletedItemsKeepTheirFolder'
    BY <1>1, <1>4 DEF ReadVault, ReadNotes, InvalidInput, ListRecords, GetRecord, Refused
  <1>5. ASSUME FolderCommands(p)
        PROVE  DeletedItemsKeepTheirFolder'
    <2>1. CASE UNCHANGED <<stores, filedIn>>
      BY <1>1, <2>1
    <2>2. CASE UNCHANGED <<rows, filedIn>>
               /\ \A i \in Items : assigned'[i] \in {assigned[i], NoFolder}
      BY <2>2 DEF DeletedItemsKeepTheirFolder, Deleted
    <2>3. ASSUME NEW f \in Folders, DeleteFolder(p, f), ChangeFolders(p)
          PROVE  UNCHANGED <<rows, filedIn>>
                 /\ \A i \in Items : assigned'[i] \in {assigned[i], NoFolder}
      BY <2>3 DEF DeleteFolder, FolderRefused, ChangeFolders, stores
    <2>. QED
      BY <1>5, <2>1, <2>2, <2>3 DEF FolderCommands, ReadFolders, CreateFolder, RenameFolder,
         DeleteFolder, FolderRefused, ChangeFolders
  <1>. QED
    BY <1>2, <1>3, <1>4, <1>5
    DEF VaultCommands, NoteCommands, CreateVaultRecord, UpdateVaultRecord, DeleteVaultRecord,
        CreateNote, UpdateNote, DeleteNote, RestoreDeletedItem, RestoreNote,
        PermanentlyDeleteItem, PermanentlyDeleteNote, Items

\* Reading what is deleted in a store begins its purge with exactly that.
LEMMA ReadsWhatIsDeleted ==
  ASSUME TypeOK, DeletedAreDated, NEW name \in {"list", "empty"}, NEW store \in {"vault", "notes"},
         NEW cutoff \in -Retention..MaxClock, cutoff + Retention <= now,
         store = "notes" => \A i \in Deleted(Credentials) :
                               name = "list" /\ rows[i].deletedAt >= cutoff,
         ReadsDeleted(First, name, store, cutoff), UNCHANGED stores
  PROVE  AssignsActive' /\ ListedAreDeleted' /\ DeletedAreListed'
  <1>0. rows' = rows
    BY DEF stores
  <1>1. ASSUME NEW result, Leaves(First, result)
        PROVE  AssignsActive' /\ ListedAreDeleted' /\ DeletedAreListed'
    <2>1. command'[First] = Idle
      BY <1>1, MCRecordsAssumption DEF Leaves, TypeOK
    <2>. QED
      BY <2>1 DEF Idle, AssignsActive, ListedAreDeleted, DeletedAreListed, IsClearing
  <1>2. ASSUME command' = [command EXCEPT ![First] =
                  [name |-> name, store |-> store, cutoff |-> cutoff,
                   todo |-> ToRemove(name, store, cutoff)]],
               now' = now
        PROVE  AssignsActive' /\ ListedAreDeleted' /\ DeletedAreListed'
    <2>1. /\ command'[First].name = name /\ command'[First].store = store
          /\ command'[First].cutoff = cutoff
          /\ command'[First].todo = ToRemove(name, store, cutoff)
      BY <1>2, MCRecordsAssumption DEF TypeOK
    <2>2. AssignsActive'
      BY <2>1 DEF AssignsActive
    <2>3. ListedAreDeleted'
      BY <1>0, <1>2, <2>1 DEF ListedAreDeleted, ToRemove, Deleted
    <2>4. ASSUME NEW i \in Deleted(Items)
          PROVE  \/ store = "vault" /\ i \in Notes
                 \/ \E x \in ToRemove(name, store, cutoff) : x.item = i
                 \/ name = "list" /\ rows[i].deletedAt >= cutoff
      <3>1. rows[i].deletedAt \in Int /\ cutoff \in Int /\ i \in Items /\ rows[i].phase = "deleted"
        BY RecordsAssumption DEF DeletedAreDated, Clock, Deleted
      <3>2. CASE i \in StoreItems(store) /\ (name = "list" => rows[i].deletedAt < cutoff)
        <4>1. [item |-> i, deletedAt |-> rows[i].deletedAt] \in ToRemove(name, store, cutoff)
          BY <3>1, <3>2 DEF ToRemove, Deleted
        <4>. QED
          BY <4>1
      <3>3. CASE i \in StoreItems(store) /\ name = "list" /\ ~(rows[i].deletedAt < cutoff)
        BY <3>1, <3>3
      <3>4. CASE i \notin StoreItems(store)
        BY <3>1, <3>4 DEF StoreItems, Items, Deleted
      <3>. QED
        BY <3>2, <3>3, <3>4
    <2>5. DeletedAreListed'
      BY <1>0, <2>1, <2>4 DEF DeletedAreListed, Deleted
    <2>. QED
      BY <2>2, <2>3, <2>5
  <1>. QED
    BY <1>1, <1>2 DEF ReadsDeleted

\* A command that is one transaction begins and ends with no command running.
LEMMA OneTransactionIsIdle ==
  ASSUME NEW p \in Processes,
         \/ VaultCommands(p) /\ ~AssignCredentialFolder(p)
         \/ NoteCommands(p) /\ ~AssignNoteFolder(p)
         \/ RestoreDeletedItem(p) \/ PermanentlyDeleteItem(p)
         \/ FolderCommands(p)
  PROVE  command[p] = Idle
  BY DEF VaultCommands, NoteCommands, CreateVaultRecord, UpdateVaultRecord, DeleteVaultRecord,
         CreateNote, UpdateNote, DeleteNote, RestoreDeletedItem, RestoreNote,
         PermanentlyDeleteItem, PermanentlyDeleteNote, ReadVault, ReadNotes, InvalidInput,
         ListRecords, GetRecord, CreateRow, EditRow, DeleteRow, RestoreRow,
         PermanentlyDeleteRow, FolderCommands, ReadFolders, CreateFolder, RenameFolder,
         DeleteFolder, MayStart

LEMMA NoCommandIsExact ==
  ASSUME command'[First] = Idle
  PROVE  AssignsActive' /\ ListedAreDeleted' /\ DeletedAreListed'
  BY DEF Idle, AssignsActive, ListedAreDeleted, DeletedAreListed, IsClearing

LEMMA LeavingIsExact ==
  ASSUME TypeOK, NEW result, Leaves(First, result)
  PROVE  AssignsActive' /\ ListedAreDeleted' /\ DeletedAreListed'
  BY NoCommandIsExact, MCRecordsAssumption DEF Leaves, TypeOK

LEMMA UnchangedFoldersAreKept ==
  ASSUME DeletedItemsKeepTheirFolder, UNCHANGED <<stores, filedIn>>
  PROVE  DeletedItemsKeepTheirFolder'
  BY DEF stores, DeletedItemsKeepTheirFolder, Deleted

LEMMA ReadingIsExact ==
  ASSUME TypeOK, DeletedAreDated, Exact,
         ListDeletedItems(First) \/ EmptyRecentlyDeleted(First) \/ TurnToNotes(First)
  PROVE  AssignsActive' /\ ListedAreDeleted' /\ DeletedAreListed'
  <1>1. CASE ListDeletedItems(First) \/ EmptyRecentlyDeleted(First)
    <2>1. PICK name \in {"list", "empty"} :
             ReadsDeleted(First, name, "vault", now - Retention) /\ UNCHANGED stores
      BY <1>1 DEF ListDeletedItems, EmptyRecentlyDeleted
    <2>2. now - Retention \in -Retention..MaxClock /\ (now - Retention) + Retention <= now
      BY RecordsAssumption DEF TypeOK, Clock
    <2>. QED
      BY <2>1, <2>2, ReadsWhatIsDeleted
  <1>2. CASE TurnToNotes(First)
    <2>1. command[First] \in Clearing /\ IsClearing(First)
      BY <1>2, ItsCommand DEF TurnToNotes
    <2>2. PICK name \in {"list", "empty"}, cutoff \in -Retention..MaxClock :
             name = command[First].name /\ cutoff = command[First].cutoff
      BY <2>1 DEF Clearing
    <2>3. /\ command[First].store = "vault" /\ command[First].todo = {}
          /\ ReadsDeleted(First, name, "notes", cutoff) /\ UNCHANGED stores
      BY <1>2, <2>2 DEF TurnToNotes
    <2>4. cutoff + Retention <= now
      BY <2>1, <2>2 DEF Exact, ListedAreDeleted
    <2>5. ASSUME NEW i \in Deleted(Credentials)
          PROVE  name = "list" /\ rows[i].deletedAt >= cutoff
      <3>1. i \in Deleted(Items) /\ i \notin Notes
        BY RecordsAssumption DEF Deleted, Items
      <3>. QED
        BY <2>1, <2>2, <2>3, <3>1 DEF Exact, DeletedAreListed
    <2>. QED
      BY <2>3, <2>4, <2>5, ReadsWhatIsDeleted
  <1>. QED
    BY <1>1, <1>2

\* Removing one listed item leaves the others listed: no item is listed twice.
LEMMA RemovingIsExact ==
  ASSUME TypeOK, Exact, RemoveNext(First)
  PROVE  /\ AssignsActive' /\ ListedAreDeleted' /\ DeletedAreListed'
         /\ DeletedItemsKeepTheirFolder'
  <1>1. IsClearing(First) /\ command[First] \in Clearing
    BY ItsCommand DEF RemoveNext
  <1>2. PICK x \in command[First].todo :
           \/ /\ Found(x.item, "deleted")
              /\ ChangeRow(x.item, Removed(x.item))
              /\ Forget(x.item)
              /\ command' = [command EXCEPT ![First].todo = @ \ {x}]
              /\ UNCHANGED <<now, unlocked, outcome>>
           \/ \E why : Leaves(First, why) /\ UNCHANGED <<stores, filedIn>>
    BY DEF RemoveNext, Newest
  <1>3. command[First].todo \subseteq Listed
    BY <1>1 DEF Clearing
  <1>4. CASE \E why : Leaves(First, why) /\ UNCHANGED <<stores, filedIn>>
    BY <1>4, LeavingIsExact, UnchangedFoldersAreKept DEF Exact
  <1>5. CASE /\ Found(x.item, "deleted")
             /\ ChangeRow(x.item, Removed(x.item))
             /\ Forget(x.item)
             /\ command' = [command EXCEPT ![First].todo = @ \ {x}]
             /\ now' = now
    <2>1. x.item \in Items
      BY <1>3 DEF Listed
    <2>2. /\ \A j \in Items \ {x.item} : rows'[j] = rows[j] /\ filedIn'[j] = filedIn[j]
          /\ rows'[x.item] = Removed(x.item) /\ assigned' = assigned
      BY <1>5, <2>1 DEF ChangeRow, Forget, TypeOK
    <2>3. rows'[x.item].phase = "gone"
      BY <2>1, <2>2 DEF Removed, TypeOK, Rows
    <2>4. DeletedItemsKeepTheirFolder'
      BY <2>1, <2>2, <2>3, FoldersAreKept DEF Exact
    <2>5. command'[First] = [command[First] EXCEPT !.todo = @ \ {x}]
      BY <1>5, MCRecordsAssumption DEF TypeOK
    <2>6. /\ command'[First].name = command[First].name
          /\ command'[First].store = command[First].store
          /\ command'[First].cutoff = command[First].cutoff
          /\ command'[First].todo = command[First].todo \ {x}
      BY <1>1, <2>5 DEF Clearing
    <2>7. AssignsActive'
      BY <1>1, <2>6 DEF AssignsActive, IsClearing
    <2>8. \A y \in command[First].todo \ {x} : y.item \in Items \ {x.item}
      <3>1. ASSUME NEW y \in command[First].todo, y.item = x.item
            PROVE  y = x
        <4>1. y.deletedAt = x.deletedAt
          BY <1>1, <3>1 DEF Exact, ListedAreDeleted
        <4>. QED
          BY <1>3, <3>1, <4>1 DEF Listed
      <3>. QED
        BY <1>3, <3>1 DEF Listed
    <2>9. ListedAreDeleted'
      BY <1>1, <1>5, <2>2, <2>6, <2>8 DEF Exact, ListedAreDeleted, IsClearing
    <2>10. \A i \in Items : rows'[i].phase = "deleted" =>
              i # x.item /\ i \in Deleted(Items) /\ rows'[i] = rows[i]
      BY <2>2, <2>3 DEF Deleted
    <2>11. DeletedAreListed'
      <3>. SUFFICES ASSUME NEW i \in Items, rows'[i].phase = "deleted"
                    PROVE  \/ command[First].store = "vault" /\ i \in Notes
                           \/ \E y \in command[First].todo \ {x} : y.item = i
                           \/ command[First].name = "list"
                              /\ rows[i].deletedAt >= command[First].cutoff
        BY <2>6, <2>10 DEF DeletedAreListed, Deleted
      <3>. QED
        BY <1>1, <2>10 DEF Exact, DeletedAreListed
    <2>. QED
      BY <2>4, <2>7, <2>9, <2>11
  <1>. QED
    BY <1>2, <1>4, <1>5

LEMMA AssigningIsExact ==
  ASSUME TypeOK, Exact,
         AssignCredentialFolder(First) \/ AssignNoteFolder(First) \/ FinishAssign(First)
  PROVE  /\ AssignsActive' /\ ListedAreDeleted' /\ DeletedAreListed'
         /\ DeletedItemsKeepTheirFolder'
  <1>1. ASSUME NEW i \in Items, NEW f \in Folders \cup {NoFolder}, BeginAssign(First, i, f)
        PROVE  /\ AssignsActive' /\ ListedAreDeleted' /\ DeletedAreListed'
               /\ DeletedItemsKeepTheirFolder'
    <2>1. CASE Refused(First, i, "active")
      <3>1. command'[First] = Idle
        BY <1>1, <2>1 DEF BeginAssign, MayStart, Refused, Ends
      <3>. QED
        BY <2>1, <3>1, NoCommandIsExact, UnchangedFoldersAreKept DEF Refused, Exact
    <2>2. CASE /\ Found(i, "active")
               /\ command' = [command EXCEPT ![First] =
                                [name |-> "assign", item |-> i, folder |-> f]]
               /\ UNCHANGED <<stores, filedIn>>
      <3>1. command'[First] = [name |-> "assign", item |-> i, folder |-> f]
        BY <2>2, MCRecordsAssumption DEF TypeOK
      <3>2. command'[First].name = "assign" /\ command'[First].item = i
        BY <3>1
      <3>3. AssignsActive'
        BY <2>2, <3>2 DEF AssignsActive, Found, stores
      <3>4. ListedAreDeleted' /\ DeletedAreListed'
        BY <3>2 DEF ListedAreDeleted, DeletedAreListed, IsClearing
      <3>. QED
        BY <2>2, <3>3, <3>4, UnchangedFoldersAreKept DEF Exact
    <2>. QED
      BY <1>1, <2>1, <2>2 DEF BeginAssign
  <1>2. CASE FinishAssign(First)
    <2>1. command[First].name = "assign" /\ command[First].item \in Items
      BY <1>2, ItsCommand DEF FinishAssign, Assigning
    <2>2. \E why : Leaves(First, why)
      BY <1>2 DEF FinishAssign
    <2>3. CASE UNCHANGED <<stores, filedIn>>
      BY <2>2, <2>3, LeavingIsExact, UnchangedFoldersAreKept DEF Exact
    <2>4. CASE assigned' = [assigned EXCEPT ![command[First].item] = command[First].folder]
               /\ UNCHANGED <<rows, filedIn>>
      <3>1. rows'[command[First].item].phase = "active"
        BY <2>1, <2>4 DEF Exact, AssignsActive
      <3>2. \A j \in Items \ {command[First].item} : assigned'[j] = assigned[j]
        BY <2>4 DEF TypeOK
      <3>3. PICK i \in Items : i = command[First].item
        BY <2>1
      <3>4. DeletedItemsKeepTheirFolder'
        BY <2>4, <3>1, <3>2, <3>3, FoldersAreKept DEF Exact
      <3>. QED
        BY <2>2, <3>4, LeavingIsExact
    <2>. QED
      BY <1>2, <2>3, <2>4 DEF FinishAssign
  <1>. QED
    BY <1>1, <1>2 DEF AssignCredentialFolder, AssignNoteFolder, Items

\* What happens without a command: time goes on, a row is damaged.
LEMMA TheWorldIsExact ==
  ASSUME IInv, TypeOK, Exact, Tick \/ (\E i \in Items : RowIsDamaged(i)) \/ UNCHANGED vars
  PROVE  Exact'
  <1>1. command' = command /\ assigned' = assigned /\ filedIn' = filedIn
    BY DEF Tick, RowIsDamaged, vars, stores
  <1>2. now \in Int /\ now' \in Int /\ now <= now'
    BY DEF Tick, RowIsDamaged, vars, TypeOK, Clock
  <1>3. \A j \in Items : rows'[j].phase = rows[j].phase /\ rows'[j].deletedAt = rows[j].deletedAt
    <2>1. ASSUME NEW i \in Items, RowIsDamaged(i)
          PROVE  \A j \in Items : /\ rows'[j].phase = rows[j].phase
                                  /\ rows'[j].deletedAt = rows[j].deletedAt
      <3>1. rows' = [rows EXCEPT ![i].readable = FALSE]
        BY <2>1 DEF RowIsDamaged
      <3>2. rows' = [rows EXCEPT ![i] = [rows[i] EXCEPT !.readable = FALSE]]
        BY <3>1
      <3>3. [rows[i] EXCEPT !.readable = FALSE].phase = rows[i].phase
            /\ [rows[i] EXCEPT !.readable = FALSE].deletedAt = rows[i].deletedAt
        BY DEF TypeOK, Rows
      <3>. QED
        BY <3>2, <3>3 DEF TypeOK
    <2>. QED
      BY <2>1 DEF Tick, vars, stores
  <1>4. AssignsActive'
    BY <1>1, <1>3, ItsCommand DEF Exact, AssignsActive, Assigning
  <1>5. ListedAreDeleted'
    <2>. SUFFICES ASSUME IsClearing(First)
                  PROVE  /\ \A x \in command[First].todo :
                              /\ rows'[x.item].phase = "deleted"
                              /\ rows'[x.item].deletedAt = x.deletedAt
                              /\ command[First].name = "list" => x.deletedAt < command[First].cutoff
                         /\ command[First].cutoff + Retention <= now'
      BY <1>1 DEF ListedAreDeleted, IsClearing
    <2>1. command[First] \in Clearing
      BY ItsCommand
    <2>2. command[First].todo \subseteq Listed /\ command[First].cutoff \in Int
      BY <2>1, RecordsAssumption DEF Clearing
    <2>3. \A x \in command[First].todo : x.item \in Items
      BY <2>2 DEF Listed
    <2>4. command[First].cutoff + Retention <= now'
      BY <1>2, <2>2, RecordsAssumption DEF Exact, ListedAreDeleted
    <2>. QED
      BY <1>3, <2>3, <2>4 DEF Exact, ListedAreDeleted
  <1>6. DeletedAreListed'
    BY <1>1, <1>3 DEF Exact, DeletedAreListed, Deleted, IsClearing
  <1>7. DeletedItemsKeepTheirFolder'
    BY <1>1, <1>3 DEF Exact, DeletedItemsKeepTheirFolder, Deleted
  <1>. QED
    BY <1>1, <1>4, <1>5, <1>6, <1>7 DEF Exact, OthersAreIdle

\* What the instance does while it lists or empties Recently Deleted.
LEMMA WhileItClears ==
  ASSUME Process(First), command[First] # Idle, command[First].name # "assign"
  PROVE  \/ RemoveNext(First) \/ TurnToNotes(First) \/ FinishClearing(First)
         \/ Unlock(First) \/ ProcessEnds(First)
  BY OneTransactionIsIdle, MCRecordsAssumption
  DEF Process, VaultCommands, NoteCommands, DeletedItemCommands, Continues, Lock, MayStart,
      ListDeletedItems, EmptyRecentlyDeleted, AssignCredentialFolder, AssignNoteFolder,
      BeginAssign, FinishAssign

LEMMA OnlyItsCommandChanges ==
  ASSUME TypeOK, DeletedAreDated, Process(First)
  PROVE  \A q \in Processes \ {First} : command'[q] = command[q]
  <1>. USE MCRecordsAssumption DEF TypeOK
  <1>1. ASSUME NEW result, Leaves(First, result)
        PROVE  \A q \in Processes \ {First} : command'[q] = command[q]
    BY <1>1 DEF Leaves
  <1>2. CASE RemoveNext(First) \/ TurnToNotes(First) \/ FinishClearing(First)
             \/ ListDeletedItems(First) \/ EmptyRecentlyDeleted(First)
    BY <1>1, <1>2 DEF RemoveNext, TurnToNotes, FinishClearing, ListDeletedItems,
       EmptyRecentlyDeleted, ReadsDeleted
  <1>3. CASE AssignCredentialFolder(First) \/ AssignNoteFolder(First) \/ FinishAssign(First)
    BY <1>1, <1>3 DEF AssignCredentialFolder, AssignNoteFolder, BeginAssign, FinishAssign,
       Refused, Ends
  <1>4. CASE Unlock(First) \/ Lock(First) \/ ProcessEnds(First)
    BY <1>4 DEF Unlock, Lock, ProcessEnds
  <1>5. CASE \/ VaultCommands(First) /\ ~AssignCredentialFolder(First)
             \/ NoteCommands(First) /\ ~AssignNoteFolder(First)
             \/ RestoreDeletedItem(First) \/ PermanentlyDeleteItem(First)
             \/ FolderCommands(First)
    BY <1>5, OneTransactionTypes
  <1>. QED
    BY <1>2, <1>3, <1>4, <1>5
    DEF Process, VaultCommands, NoteCommands, DeletedItemCommands, Continues

LEMMA ItsStepIsExact ==
  ASSUME IInv, TypeOK, DeletedAreDated, Exact, Process(First)
  PROVE  Exact'
  <1>1. OthersAreIdle'
    BY OnlyItsCommandChanges DEF Exact, OthersAreIdle
  <1>2. CASE \/ VaultCommands(First) /\ ~AssignCredentialFolder(First)
             \/ NoteCommands(First) /\ ~AssignNoteFolder(First)
             \/ RestoreDeletedItem(First) \/ PermanentlyDeleteItem(First)
             \/ FolderCommands(First)
    <2>1. command[First] = Idle
      BY <1>2, OneTransactionIsIdle, MCRecordsAssumption
    <2>2. command' = command
      BY <1>2, OneTransactionTypes, MCRecordsAssumption
    <2>3. DeletedItemsKeepTheirFolder'
      BY <1>2, OneTransactionKeeps, MCRecordsAssumption DEF Exact
    <2>. QED
      BY <1>1, <2>1, <2>2, <2>3, NoCommandIsExact DEF Exact
  <1>3. CASE AssignCredentialFolder(First) \/ AssignNoteFolder(First) \/ FinishAssign(First)
    BY <1>1, <1>3, AssigningIsExact DEF Exact
  <1>4. CASE ListDeletedItems(First) \/ EmptyRecentlyDeleted(First) \/ TurnToNotes(First)
    <2>1. DeletedItemsKeepTheirFolder'
      BY <1>4, UnchangedFoldersAreKept
      DEF Exact, ListDeletedItems, EmptyRecentlyDeleted, TurnToNotes
    <2>. QED
      BY <1>1, <1>4, <2>1, ReadingIsExact DEF Exact
  <1>5. CASE RemoveNext(First)
    BY <1>1, <1>5, RemovingIsExact DEF Exact
  <1>6. CASE FinishClearing(First)
    BY <1>1, <1>6, LeavingIsExact, UnchangedFoldersAreKept DEF Exact, FinishClearing
  <1>7. CASE Lock(First) \/ ProcessEnds(First)
    <2>1. command'[First] = Idle
      BY <1>7, MCRecordsAssumption DEF Lock, ProcessEnds, MayStart, TypeOK
    <2>2. UNCHANGED <<stores, filedIn>>
      BY <1>7 DEF Lock, ProcessEnds
    <2>. QED
      BY <1>1, <2>1, <2>2, NoCommandIsExact, UnchangedFoldersAreKept DEF Exact
  <1>8. CASE Unlock(First)
    BY <1>1, <1>8, UnchangedFoldersAreKept
    DEF Unlock, stores, Exact, AssignsActive, ListedAreDeleted, DeletedAreListed, Deleted,
        IsClearing
  <1>. QED
    BY <1>2, <1>3, <1>4, <1>5, <1>6, <1>7, <1>8
    DEF Process, VaultCommands, NoteCommands, DeletedItemCommands, Continues

LEMMA StepOfOneOrTwo ==
  ASSUME [OneOrTwoNext]_allVars
  PROVE  /\ [Next]_vars
         /\ alone' = alone
         /\ alone => \/ Tick \/ (\E i \in Items : RowIsDamaged(i)) \/ UNCHANGED vars
                     \/ Process(First)
  BY DEF OneOrTwoNext, allVars, Next

LEMMA OneInvIsInductive ==
  /\ OneOrTwoInit => OneInv
  /\ OneInv /\ [OneOrTwoNext]_allVars => OneInv'
  <1>1. ASSUME OneOrTwoInit PROVE OneInv
    <2>1. IInv /\ TypeOK /\ DeletedAreDated
      <3>1. IInv
        BY <1>1, InitInv DEF OneOrTwoInit
      <3>2. DeletedAreDated
        BY <1>1 DEF OneOrTwoInit, Init, DeletedAreDated, Deleted
      <3>. QED
        BY <1>1, <3>1, <3>2 DEF OneOrTwoInit, Init, IInv, Types, TypeOK, Outcomes
    <2>2. /\ \A p \in Processes : command[p] = Idle
          /\ Deleted(Items) = {}
      BY <1>1 DEF OneOrTwoInit, Init, Deleted
    <2>3. Exact
      BY <2>2, MCRecordsAssumption DEF Exact, OthersAreIdle, AssignsActive, ListedAreDeleted,
         DeletedAreListed, DeletedItemsKeepTheirFolder, IsClearing, Idle
    <2>. QED
      BY <2>1, <2>3 DEF OneInv
  <1>2. ASSUME OneInv, [OneOrTwoNext]_allVars PROVE OneInv'
    <2>1. IInv' /\ TypeOK' /\ DeletedAreDated'
      BY <1>2, StepOfOneOrTwo, TypesStay, NextInv DEF OneInv
    <2>2. ASSUME alone' PROVE Exact'
      BY <1>2, <2>2, StepOfOneOrTwo, TheWorldIsExact, ItsStepIsExact DEF OneInv
    <2>. QED
      BY <2>1, <2>2 DEF OneInv
  <1>. QED
    BY <1>1, <1>2

\* A purge of both stores that is through has left nothing of what it is to remove.
LEMMA NothingIsLeft ==
  ASSUME Exact, FinishClearing(First)
  PROVE  \A i \in Deleted(Items) : /\ command[First].name = "list"
                                   /\ rows[i].deletedAt >= command[First].cutoff
  BY DEF Exact, FinishClearing, DeletedAreListed

LEMMA ClearsExactly ==
  ASSUME TypeOK, Exact,
         \/ Tick \/ (\E i \in Items : RowIsDamaged(i)) \/ UNCHANGED vars \/ Process(First)
  PROVE  EmptiesAll /\ ShowsRecent /\ PurgesOverdue
  <1>1. ASSUME NEW p \in Processes, p # First
        PROVE  command[p].name \notin {"empty", "list"}
    BY <1>1 DEF Exact, OthersAreIdle, Idle
  <1>2. CASE ~IsClearing(First)
    BY <1>1, <1>2 DEF IsClearing, EmptiesAll, ShowsRecent, PurgesOverdue
  <1>3. CASE IsClearing(First)
    <2>1. command[First] \in Clearing /\ command[First] # Idle /\ command[First].name # "assign"
      BY <1>3, ItsCommand DEF IsClearing
    <2>. SUFFICES
           /\ command'[First] = Idle /\ outcome'[First] = "ok" =>
                 \A i \in Deleted(Items) : /\ command[First].name = "list"
                                           /\ rows[i].deletedAt >= command[First].cutoff
           /\ command[First].name = "list" /\ command'[First] # command[First] =>
                 \A i \in Items : rows[i].phase # "gone" /\ rows'[i].phase = "gone" =>
                                     rows[i].deletedAt + Retention < now
      BY <1>1 DEF EmptiesAll, ShowsRecent, PurgesOverdue
    <2>2. CASE Tick \/ (\E i \in Items : RowIsDamaged(i)) \/ UNCHANGED vars \/ Unlock(First)
      BY <2>1, <2>2 DEF Tick, RowIsDamaged, vars, Unlock
    <2>3. CASE ProcessEnds(First)
      BY <2>3, MCRecordsAssumption DEF ProcessEnds, stores, TypeOK
    <2>4. CASE FinishClearing(First)
      BY <2>4, NothingIsLeft DEF FinishClearing, stores
    <2>5. CASE TurnToNotes(First)
      <3>1. rows' = rows
        BY <2>5 DEF TurnToNotes, stores
      <3>2. PICK result \in ListResults(StoreItems("notes"), "deleted") :
               IF result = "ok"
               THEN command'[First] = [name |-> command[First].name, store |-> "notes",
                                       cutoff |-> command[First].cutoff,
                                       todo |-> ToRemove(command[First].name, "notes",
                                                         command[First].cutoff)]
               ELSE outcome'[First] = result
        BY <2>5, MCRecordsAssumption DEF TurnToNotes, ReadsDeleted, Leaves, Report, TypeOK
      <3>3. ~(command'[First] = Idle /\ outcome'[First] = "ok")
        BY <2>1, <3>2 DEF Clearing, Idle
      <3>. QED
        BY <3>1, <3>3
    <2>6. CASE RemoveNext(First)
      <3>1. PICK x \in command[First].todo :
               \/ /\ ChangeRow(x.item, Removed(x.item))
                  /\ command' = [command EXCEPT ![First].todo = @ \ {x}]
               \/ \E why \in Refusals(x.item, "deleted") :
                     Leaves(First, why) /\ UNCHANGED stores
        BY <2>6 DEF RemoveNext, Newest
      <3>2. x \in Listed
        BY <2>1 DEF Clearing
      <3>3. CASE \E why \in Refusals(x.item, "deleted") :
                    Leaves(First, why) /\ UNCHANGED stores
        <4>1. outcome'[First] # "ok"
          BY <3>3, MCRecordsAssumption DEF Refusals, Leaves, Report, TypeOK
        <4>. QED
          BY <3>3, <4>1 DEF stores
      <3>4. CASE /\ ChangeRow(x.item, Removed(x.item))
                 /\ command' = [command EXCEPT ![First].todo = @ \ {x}]
        <4>1. command'[First] = [command[First] EXCEPT !.todo = @ \ {x}]
          BY <3>4, MCRecordsAssumption DEF TypeOK
        <4>2. command'[First].name = command[First].name
          BY <2>1, <4>1 DEF Clearing
        <4>3. command'[First] # Idle
          BY <1>3, <4>2 DEF IsClearing, Idle
        <4>4. \A i \in Items \ {x.item} : rows'[i] = rows[i]
          BY <3>4 DEF ChangeRow, TypeOK
        <4>5. ASSUME command[First].name = "list"
              PROVE  rows[x.item].deletedAt + Retention < now
          <5>1. /\ rows[x.item].deletedAt = x.deletedAt
                /\ x.deletedAt < command[First].cutoff
                /\ command[First].cutoff + Retention <= now
            BY <1>3, <4>5 DEF Exact, ListedAreDeleted
          <5>2. x.deletedAt \in Int /\ command[First].cutoff \in Int /\ now \in Int
                /\ Retention \in Int
            BY <2>1, <3>2, RecordsAssumption DEF Listed, Clearing, Clock, TypeOK
          <5>. QED
            BY <5>1, <5>2
        <4>. QED
          BY <4>3, <4>4, <4>5
      <3>. QED
        BY <3>1, <3>3, <3>4
    <2>. QED
      BY <2>1, <2>2, <2>3, <2>4, <2>5, <2>6, WhileItClears
  <1>. QED
    BY <1>2, <1>3

\* While one instance of the program runs: emptying Recently Deleted leaves nothing in
\* either store, a listing shows nothing overdue, only what is overdue is purged, and
\* what is deleted stays in its folder (ipc.rs:920-1005).
THEOREM OneInstancePurgesExactly == OneOrTwo => OneInstanceIsExact
  <1>1. OneInv => (alone => TypeOK /\ DeletedItemsKeepTheirFolder)
    BY DEF OneInv, Exact
  <1>2. OneInv /\ [OneOrTwoNext]_allVars
           => [alone => EmptiesAll /\ ShowsRecent /\ PurgesOverdue]_allVars
    BY StepOfOneOrTwo, ClearsExactly DEF OneInv
  <1>. QED
    BY <1>1, <1>2, OneInvIsInductive, PTL DEF OneOrTwo, OneInstanceIsExact

\* The runs are behaviours of the specification, so all that is proved of it is true of them.
LEMMA OneOrTwoAreRecords == OneOrTwo => Spec
  <1>1. OneOrTwoInit => Init
    BY DEF OneOrTwoInit
  <1>2. [OneOrTwoNext]_allVars => [Next]_vars
    BY StepOfOneOrTwo
  <1>. QED
    BY <1>1, <1>2, PTL DEF OneOrTwo, Spec
=============================================================================
