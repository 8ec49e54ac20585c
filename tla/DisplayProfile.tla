---------------------------- MODULE DisplayProfile ----------------------------
(***************************************************************************)
(* The display name and avatar (profile.rs): a metadata file, and avatar   *)
(* files in two slots.  Each file is replaced atomically, but a save        *)
(* writes several, any of which may fail, and the process may end between  *)
(* two of them.  A new avatar goes to the slot that is not in use, the     *)
(* metadata then names it, and only then the other files go.               *)
(*                                                                         *)
(* Saves and resets of one process exclude each other by a mutex of the    *)
(* service; neither the operation gate nor the session matters to a save.  *)
(***************************************************************************)
EXTENDS FiniteSets, Sequences

CONSTANTS Names,      \* display names that pass validation
          Pictures,   \* images that pass validation
          Types,      \* their types, which are the extensions
          Default,    \* the name shown without metadata
          Absent,     \* no file, or no avatar
          Spoilt      \* a file that cannot be decoded any more

VARIABLES metadata,   \* the metadata file
          avatars,    \* the avatar files
          op,         \* the save or reset under way
          shown       \* the name the window shows

vars == <<metadata, avatars, op, shown>>

Slots == {"a", "b"}
Files == [slot : Slots, type : Types]
Updates == [kind : {"keep", "remove"}]
             \cup [kind : {"replace"}, type : Types, picture : Pictures]

\* "picture" is not in the file: it is the one that was saved along with the name.
Metadata == [name : Names, avatar : Files, picture : Pictures]
              \cup [name : Names, avatar : {Absent}]

\* A missing or damaged metadata file counts as the default profile.
Loaded == IF metadata \in {Absent, Spoilt} THEN [name |-> Default, avatar |-> Absent]
          ELSE metadata

LoadAvatar(file) ==
    IF file # Absent /\ avatars[file] \in Pictures THEN avatars[file] ELSE Absent

\* What is shown: an avatar that is not there, or cannot be decoded, is left out.
ShownPicture == LoadAvatar(Loaded.avatar)

\* The constants differ from each other and from what is kept.
ProfileAssumption ==
    /\ Default \notin Names
    /\ Absent # Spoilt
    /\ {Absent, Spoilt} \cap (Pictures \cup Files \cup Metadata) = {}

NoTarget == [name |-> Default, avatar |-> Absent]
Idle == [kind |-> "none", at |-> "idle", target |-> NoTarget, files |-> {}]

Init ==
    /\ metadata = Absent
    /\ avatars = [f \in Files |-> Absent]
    /\ op = Idle
    /\ shown = Default

---------------------------------------------------------------------------
(* Saving.                                                                 *)

\* Mutant: the new avatar goes to the slot in use.
NextSlotInUse(current) == IF current.avatar # Absent THEN current.avatar.slot ELSE "a"

NextSlot(current) ==
    IF current.avatar # Absent /\ current.avatar.slot = "a" THEN "b" ELSE "a"

\* What the metadata is to become.
Target(name, update) ==
    CASE update.kind = "keep" /\ LoadAvatar(Loaded.avatar) # Absent ->
            [name |-> name, avatar |-> Loaded.avatar, picture |-> Loaded.picture]
      [] update.kind = "replace" ->
            [name |-> name, avatar |-> [slot |-> NextSlot(Loaded), type |-> update.type],
             picture |-> update.picture]
      [] OTHER -> [name |-> name, avatar |-> Absent]

Save(name, update) ==
    /\ op = Idle
    /\ op' = [kind |-> update.kind, target |-> Target(name, update), files |-> {},
              at |-> IF update.kind = "replace" THEN "avatar" ELSE "metadata"]
    /\ UNCHANGED <<metadata, avatars, shown>>

Saving == op.kind \in {"keep", "remove", "replace"}
GoTo(place) == op' = [op EXCEPT !.at = place]

WriteAvatar ==
    /\ op.at = "avatar"
    /\ \/ /\ avatars' = [avatars EXCEPT ![op.target.avatar] = op.target.picture]
          /\ GoTo("metadata")
       \/ GoTo("failed") /\ UNCHANGED avatars
    /\ UNCHANGED <<metadata, shown>>

\* The other files are removed one after the other.
WriteMetadata ==
    /\ Saving
    /\ op.at = "metadata"
    /\ metadata' = op.target
    /\ IF op.kind = "keep" THEN GoTo("saved")
       ELSE op' = [op EXCEPT !.at = "clean", !.files = Files \ {op.target.avatar}]
    /\ UNCHANGED <<avatars, shown>>

\* Only the new avatar is taken back, if it can be.
Undo == \/ op.kind = "replace" /\ avatars' = [avatars EXCEPT ![op.target.avatar] = Absent]
        \/ UNCHANGED avatars

MetadataFails ==
    /\ Saving
    /\ op.at = "metadata"
    /\ Undo
    /\ GoTo("failed")
    /\ UNCHANGED <<metadata, shown>>

\* Every managed file but the one in use is to go.
ToClean == op.files

RemoveFile ==
    /\ op.at = "clean"
    /\ \E f \in ToClean :
          \/ /\ avatars' = [avatars EXCEPT ![f] = Absent]
             /\ op' = [op EXCEPT !.files = @ \ {f}]
          \/ avatars[f] # Absent /\ GoTo("failed") /\ UNCHANGED avatars
    /\ UNCHANGED <<metadata, shown>>

CleaningEnds ==
    /\ op.at = "clean"
    /\ ToClean = {}
    /\ GoTo("saved")
    /\ UNCHANGED <<metadata, avatars, shown>>

---------------------------------------------------------------------------
(* Resetting, the end of an operation, and what happens to the files.      *)

Reset ==
    /\ op = Idle
    /\ op' = [Idle EXCEPT !.kind = "reset", !.at = "metadata"]
    /\ UNCHANGED <<metadata, avatars, shown>>

RemoveMetadata ==
    /\ op.kind = "reset"
    /\ op.at = "metadata"
    /\ \/ metadata' = Absent /\ op' = [op EXCEPT !.at = "clean", !.files = Files]
       \/ metadata # Absent /\ GoTo("failed") /\ UNCHANGED metadata
    /\ UNCHANGED <<avatars, shown>>

\* The window shows the snapshot that a save returns; an error leaves it as it is.
Return ==
    /\ op.at \in {"saved", "failed"}
    /\ op' = Idle
    /\ shown' = IF op.at = "saved" THEN Loaded.name ELSE shown
    /\ UNCHANGED <<metadata, avatars>>

\* The process ends at any moment, and loads the profile when it starts again.
Restart ==
    /\ op' = Idle
    /\ shown' = Loaded.name
    /\ UNCHANGED <<metadata, avatars>>

SpoilAvatar(f) ==
    /\ avatars[f] \in Pictures
    /\ avatars' = [avatars EXCEPT ![f] = Spoilt]
    /\ UNCHANGED <<metadata, op, shown>>

SpoilMetadata ==
    /\ metadata \notin {Absent, Spoilt}
    /\ metadata' = Spoilt
    /\ UNCHANGED <<avatars, op, shown>>

Next ==
    \/ \E name \in Names, update \in Updates : Save(name, update)
    \/ WriteAvatar \/ WriteMetadata \/ MetadataFails
    \/ RemoveFile \/ CleaningEnds
    \/ Reset \/ RemoveMetadata
    \/ Return \/ Restart
    \/ SpoilMetadata \/ \E f \in Files : SpoilAvatar(f)

Spec == Init /\ [][Next]_vars

---------------------------------------------------------------------------
(* Properties.                                                             *)

Places == {"idle", "avatar", "metadata", "clean", "saved", "failed"}
Ops == [kind : {"none", "keep", "remove", "replace", "reset"}, at : Places,
        target : Metadata \cup {NoTarget}, files : SUBSET Files]

TypeOK ==
    /\ metadata \in Metadata \cup {Absent, Spoilt}
    /\ avatars \in [Files -> Pictures \cup {Absent, Spoilt}]
    /\ op \in Ops
    /\ shown \in Names \cup {Default}

\* Whatever failed and whenever the process ended, a name is never shown with another
\* picture than the one it was saved with.
NameAndPictureMatch ==
    (ShownPicture # Absent) => (ShownPicture = metadata.picture)

\* The picture of the saved profile stays as long as the metadata names it: a save of
\* another one does not touch it, nor does taking back a save that failed.
SavedPictureStays ==
    [][(metadata' = metadata /\ metadata \in Metadata) =>
          \/ (LoadAvatar(metadata.avatar))' = LoadAvatar(metadata.avatar)
          \/ \E f \in Files : SpoilAvatar(f)]_vars

\* A new avatar, or none, leaves no other avatar behind, not even of earlier saves that
\* failed; a reset leaves nothing.
NothingIsLeftBehind ==
    (op.at = "saved" /\ op.kind # "keep") =>
        \A f \in Files : (avatars[f] # Absent) => (op.kind = "replace" /\ f = op.target.avatar)

\* "KeyNest could not save the local profile." (ipc.rs:259): the window goes on showing the
\* profile it showed before, and that is still the saved one.
FailedSaveSavesNothing ==
    (Saving /\ op.at = "failed" /\ metadata # Spoilt) => (Loaded.name = shown)
=============================================================================
