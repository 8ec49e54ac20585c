------------------------------- MODULE MCFiles -------------------------------
(***************************************************************************)
(* What KeyNest keeps in files, in one run: the profile with its keys      *)
(* (ProfileFile), used by one instance of the program and, while it is     *)
(* being set up, by two; the display profile; and the opening of a store   *)
(* by any number of instances (StoreOpening).  The parts share no          *)
(* variable: a behaviour follows one, and the others stay as they began.   *)
(***************************************************************************)
EXTENDS Integers, FiniteSets, Sequences

CONSTANTS Passwords, Pins, Devices, Protecting, Costs,
          NoFile, Damaged, NoWrapper,
          MaxKeys, MaxRotations, MaxAlterations,               \* ProfileFile
          Names, Pictures, Types, Default, Absent, Spoilt,     \* DisplayProfile
          Processes, Kinds, Records, MaxFaults, NoProcess      \* StoreOpening

VARIABLES part,
          file, device, data, status, memory, held, keys, rotations, alterations,
          metadata, avatars, op, shown,
          kind, store, writer, work, readers, pc, outcome, faults

keyVars == <<file, device, data, status, memory, held, keys, rotations, alterations>>
displayVars == <<metadata, avatars, op, shown>>
openingVars == <<kind, store, writer, work, readers, pc, outcome, faults>>
allVars == <<part, keyVars, displayVars, openingVars>>

-----------------------------------------------------------------------------
(* The instances.                                                          *)

One == INSTANCE ProfileFile WITH Instances <- {"i1"}

Two == INSTANCE ProfileFile WITH
    Instances <- {"i1", "i2"}, Pins <- {"n1"},
    Devices <- {"d1"}, Protecting <- {"d1"},
    MaxKeys <- 2, MaxRotations <- 1, MaxAlterations <- 0

Display == INSTANCE DisplayProfile

Opening == INSTANCE StoreOpening WITH file <- store

Cost(kib, passes, lanes) ==
    [memory_kib |-> kib, iterations |-> passes, parallelism |-> lanes]

\* The costs of this build, those of a build that prefers memory, both limits at
\* once, and those of the tests.
SomeCosts == {Cost(65536, 3, 4), Cost(131072, 3, 1), Cost(131072, 6, 4), Cost(32, 1, 1)}

ASSUME FilesAssumption ==
    /\ One!ProfileFileAssumption /\ Two!ProfileFileAssumption
    /\ Display!ProfileAssumption
    /\ Opening!OpeningAssumption

-----------------------------------------------------------------------------
(* A behaviour follows one part.                                           *)

Init ==
    /\ part \in {"keys", "setup", "display", "stores"}
    /\ IF part = "keys" THEN One!Init ELSE Two!Init
    /\ part \notin {"keys", "setup"} => file = NoFile
    /\ Display!Init
    /\ Opening!Init
    /\ part # "stores" => kind = "vault" /\ store.schema = "none"

KeyStep == part = "keys" /\ One!Next /\ UNCHANGED <<displayVars, openingVars>>
SetupStep == part = "setup" /\ Two!Next /\ UNCHANGED <<displayVars, openingVars>>
DisplayStep == part = "display" /\ Display!Next /\ UNCHANGED <<keyVars, openingVars>>
OpeningStep == part = "stores" /\ Opening!Next /\ UNCHANGED <<keyVars, displayVars>>

Next ==
    /\ UNCHANGED part
    /\ KeyStep \/ SetupStep \/ DisplayStep \/ OpeningStep

Spec == Init /\ [][Next]_allVars

\* Whoever opens a store makes steps, and tries again (StoreOpening).
FairSpec == Spec /\ (part = "stores" => \A p \in Processes : WF_openingVars(Opening!Opens(p)))

-----------------------------------------------------------------------------
(* What is checked of each part; what it means is said where it is defined. *)

\* The profile on disk stays one that the program accepts, can afford and can change,
\* and every wrapper of it holds the one vault key (ProfileFile).
ProfileStaysSound ==
    part = "keys" =>
        One!TypeOK /\ One!ChangesAreAccepted /\ One!DerivationIsAffordable /\ One!OneVaultKey

\* A session opens only by a wrapper made for what was typed, on the device it was made
\* on; a recovery key that was replaced opens nothing any more; nothing that is typed makes
\* a sound profile a damaged one; and an instance that waits to be set up does not
\* overwrite a profile that another one has made (ProfileFile).
ProfileIsGuarded ==
    [][/\ part = "keys" => One!OpensItsOwnSlot /\ One!StaysReplaced /\ One!StaysSound
       /\ part = "setup" => Two!OverwritesNothing]_allVars

\* A name is never shown with the picture of another save, a picture in use is not touched
\* by a save that fails, and no picture is left behind (DisplayProfile).
PicturesAreSound ==
    /\ [](Display!TypeOK /\ Display!NameAndPictureMatch /\ Display!NothingIsLeftBehind)
    /\ Display!SavedPictureStays

\* A store on disk is whole or somebody else's, nobody holds its lock outside a
\* transaction, and whoever has it open has the current schema, unless it is a folders.db
\* that was taken on trust (StoreOpening).
StoresAreWhole == part = "stores" => Opening!TypeOK /\ Opening!FileIsSound

\* Opening loses no row, and leaves a file alone that is not KeyNest's, unless it was
\* taken on trust (StoreOpening).
StoresKeepTheirRows == Opening!DataSurvives

\* A whole store opens for everybody who keeps trying (StoreOpening).
StoresOpen == part = "stores" => Opening!EverybodyOpens
=============================================================================
