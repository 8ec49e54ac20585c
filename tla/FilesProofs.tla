----------------------------- MODULE FilesProofs -----------------------------
(***************************************************************************)
(* What is proved of the files (MCFiles), for any passwords, PINs,         *)
(* devices and costs, any names and pictures, any rows, and any number of  *)
(* instances that open a store:                                            *)
(*                                                                         *)
(*   OneKeyForAll           Spec => []ProfileStaysSound                    *)
(*   ProfileKeepsItsGuards  Spec => ProfileIsGuarded                       *)
(*   PicturesStaySound      Spec => PicturesAreSound                       *)
(*   StoresStayWhole        Spec => []StoresAreWhole                       *)
(*   NothingIsLost          Spec => StoresKeepTheirRows                    *)
(*                                                                         *)
(* The parts share no variable, so that each has an invariant of its own   *)
(* (KeyInv, Waits, DisplayInv, OpeningInv), and FilesInv is all of them.   *)
(***************************************************************************)
EXTENDS MCFiles, TLAPS

---------------------------------------------------------------------------
(* The profile and its keys.                                               *)

\* Every wrapper of profile p holds the vault key k.
Holding(p, k) ==
    /\ p.wrapped_key.key = k
    /\ p.recovery_wrapped_key # NoWrapper => p.recovery_wrapped_key.key = k
    /\ p.pin_wrapped_key # NoWrapper => p.pin_wrapped_key.key = k

\* The secrets of p are passwords and recovery keys that have been generated.
MadeOf(p, secrets) ==
    /\ p.wrapped_key.secret \in secrets
    /\ p.recovery_wrapped_key # NoWrapper => p.recovery_wrapped_key.secret \in secrets

\* The only instance remembers the file as it is, and the file is sound, or nothing.
SessionFits ==
    /\ status["i1"] \in {"Locked", "Unlocked"} =>
          memory["i1"] = file /\ file \in One!StoredProfiles /\ One!validate(file)
    /\ status["i1"] \notin {"Locked", "Unlocked"} => memory["i1"] = NoFile
    /\ status["i1"] = "SetupRequired" => file = NoFile
    /\ status["i1"] = "Unlocked" <=> held["i1"] # 0

\* One vault key is in the wrappers, in the stores and in the session.
IsTheKey(k) ==
    /\ file \in One!StoredProfiles => Holding(file, k)
    /\ data \in {0, k}
    /\ held["i1"] \in {0, k}

KeyInv ==
    /\ One!TypeOK
    /\ SessionFits
    /\ file = NoFile => data = 0
    /\ \E k \in 0 .. MaxKeys : IsTheKey(k)
    /\ file \in One!StoredProfiles => MadeOf(file, One!Typed)

\* A wrapper is none of the marks, and a profile is made of its slots.
LEMMA Marks ==
    /\ NoFile # Damaged /\ NoFile \notin One!StoredProfiles /\ Damaged \notin One!StoredProfiles
    /\ NoWrapper \notin One!Wrappers /\ NoWrapper \notin One!PinWrappers
    /\ MaxKeys \in Nat \ {0} /\ MaxRotations \in Nat /\ MaxAlterations \in Nat
    /\ One!production \in Costs
    /\ Costs \subseteq [memory_kib : Nat, iterations : Nat, parallelism : Nat]
  BY FilesAssumption DEF One!ProfileFileAssumption

LEMMA Productive == One!validate_production(One!production)
  BY DEF One!validate_production, One!production

LEMMA Affordable ==
  ASSUME NEW p \in Costs, One!validate_production(p)
  PROVE  /\ p.memory_kib <= 2 * One!production.memory_kib
         /\ One!Work(p) <= 2 * One!Work(One!production)
  <1>1. p.memory_kib \in Nat /\ p.iterations \in Nat
    BY Marks
  <1>. QED
    BY <1>1, SMT DEF One!validate_production, One!production, One!Work

LEMMA TypedAreTexts ==
  ASSUME rotations \in 0 .. MaxRotations
  PROVE  One!Typed \subseteq One!Texts
  BY Marks DEF One!Typed, One!Texts, One!RecoveryKeys

LEMMA SlotsOfProfile ==
  \A p \in One!StoredProfiles :
     /\ p.format_version \in 1 .. 3
     /\ p.wrapped_key \in One!Wrappers
     /\ p.recovery_wrapped_key \in One!Wrappers \cup {NoWrapper}
     /\ p.pin_wrapped_key \in One!PinWrappers \cup {NoWrapper}
  BY DEF One!StoredProfiles

\* What is wrapped is as it should be.
LEMMA WrapMakes ==
  \A secret \in One!Texts, k \in 1 .. MaxKeys, purpose \in {"profile", "recovery"} :
     /\ One!Wrap(secret, k, purpose) \in One!Wrappers
     /\ One!valid_wrapped_key(One!Wrap(secret, k, purpose))
     /\ One!Wrap(secret, k, purpose).key = k
     /\ One!Wrap(secret, k, purpose).secret = secret
     /\ One!Wrap(secret, k, purpose).purpose = purpose
  BY Marks, Productive DEF One!Wrap, One!Wrappers, One!valid_wrapped_key

LEMMA PinWrapMakes ==
  \A pin \in Pins, here \in Devices, k \in 1 .. MaxKeys :
     /\ One!wrap_pin_vault_key(pin, here, k) \in One!PinWrappers
     /\ One!valid_pin_wrapped_key(One!wrap_pin_vault_key(pin, here, k))
     /\ One!wrap_pin_vault_key(pin, here, k).key = k
  BY Marks, Productive
     DEF One!wrap_pin_vault_key, One!PinWrappers, One!valid_pin_wrapped_key, One!valid_wrapped_key

LEMMA WithRecovery ==
  \A w \in One!Wrappers, r \in One!Wrappers :
     /\ One!with_recovery(w, r) \in One!StoredProfiles
     /\ One!with_recovery(w, r).format_version = 2
     /\ One!with_recovery(w, r).wrapped_key = w
     /\ One!with_recovery(w, r).recovery_wrapped_key = r
     /\ One!with_recovery(w, r).pin_wrapped_key = NoWrapper
  BY DEF One!with_recovery, One!StoredProfiles

LEMMA ReplacingMaster ==
  \A p \in One!StoredProfiles, w \in One!Wrappers :
     /\ One!replacing_master_wrapper(p, w) \in One!StoredProfiles
     /\ One!replacing_master_wrapper(p, w).format_version = p.format_version
     /\ One!replacing_master_wrapper(p, w).wrapped_key = w
     /\ One!replacing_master_wrapper(p, w).recovery_wrapped_key = p.recovery_wrapped_key
     /\ One!replacing_master_wrapper(p, w).pin_wrapped_key = p.pin_wrapped_key
  BY DEF One!replacing_master_wrapper, One!StoredProfiles

LEMMA ReplacingRecovery ==
  \A p \in One!StoredProfiles : \A w :
     /\ w \in One!Wrappers => One!replacing_recovery_wrapper(p, w) \in One!StoredProfiles
     /\ One!replacing_recovery_wrapper(p, w).format_version = 2
     /\ One!replacing_recovery_wrapper(p, w).wrapped_key = p.wrapped_key
     /\ One!replacing_recovery_wrapper(p, w).recovery_wrapped_key = w
     /\ One!replacing_recovery_wrapper(p, w).pin_wrapped_key = p.pin_wrapped_key
  <1>. SUFFICES ASSUME NEW p \in One!StoredProfiles, NEW w,
                       NEW r, r = One!replacing_recovery_wrapper(p, w)
                PROVE  /\ w \in One!Wrappers => r \in One!StoredProfiles
                       /\ r.format_version = 2
                       /\ r.wrapped_key = p.wrapped_key
                       /\ r.recovery_wrapped_key = w
                       /\ r.pin_wrapped_key = p.pin_wrapped_key
    OBVIOUS
  <1>1. PICK q : q = [p EXCEPT !.format_version = 2]
    OBVIOUS
  <1>2. q \in One!StoredProfiles
    BY <1>1 DEF One!StoredProfiles
  <1>3. r = [q EXCEPT !.recovery_wrapped_key = w]
    BY <1>1, <1>2 DEF One!replacing_recovery_wrapper, One!StoredProfiles
  <1>. QED
    BY <1>1, <1>2, <1>3 DEF One!StoredProfiles

LEMMA ReplacingPin ==
  \A p \in One!StoredProfiles, w \in One!PinWrappers \cup {NoWrapper} :
     /\ One!replacing_pin_wrapper(p, w) \in One!StoredProfiles
     /\ One!replacing_pin_wrapper(p, w).format_version = p.format_version
     /\ One!replacing_pin_wrapper(p, w).wrapped_key = p.wrapped_key
     /\ One!replacing_pin_wrapper(p, w).recovery_wrapped_key = p.recovery_wrapped_key
     /\ One!replacing_pin_wrapper(p, w).pin_wrapped_key = w
  BY DEF One!replacing_pin_wrapper, One!StoredProfiles

\* An open session holds the one key.
LEMMA OpenSession ==
  ASSUME KeyInv, status["i1"] = "Unlocked"
  PROVE  /\ held["i1"] \in 1 .. MaxKeys
         /\ memory["i1"] = file
         /\ file \in One!StoredProfiles
         /\ One!validate(file)
         /\ IsTheKey(held["i1"])
         /\ MadeOf(file, One!Typed)
  <1>1. held["i1"] # 0 /\ memory["i1"] = file /\ file \in One!StoredProfiles /\ One!validate(file)
    BY DEF KeyInv, SessionFits
  <1>2. PICK k \in 0 .. MaxKeys : IsTheKey(k)
    BY DEF KeyInv
  <1>3. held["i1"] = k
    BY <1>1, <1>2 DEF IsTheKey
  <1>. QED
    BY <1>1, <1>2, <1>3, Marks DEF KeyInv

\* A profile that waits for its secret has one key too.
LEMMA LockedSession ==
  ASSUME KeyInv, status["i1"] = "Locked"
  PROVE  /\ held["i1"] = 0
         /\ memory["i1"] = file
         /\ file \in One!StoredProfiles
         /\ One!validate(file)
         /\ file.wrapped_key.key \in 1 .. MaxKeys
         /\ IsTheKey(file.wrapped_key.key)
         /\ MadeOf(file, One!Typed)
  <1>1. /\ held["i1"] = 0 /\ memory["i1"] = file
        /\ file \in One!StoredProfiles /\ One!validate(file)
    BY DEF KeyInv, SessionFits
  <1>2. PICK k \in 0 .. MaxKeys : IsTheKey(k)
    BY DEF KeyInv
  <1>3. k = file.wrapped_key.key
    BY <1>1, <1>2 DEF IsTheKey, Holding
  <1>4. file.wrapped_key.key \in 1 .. MaxKeys
    <2>1. file.wrapped_key \in One!Wrappers
      BY <1>1, SlotsOfProfile
    <2>. QED
      BY <2>1 DEF One!Wrappers
  <1>. QED
    BY <1>1, <1>2, <1>3, <1>4 DEF KeyInv

\* What a session may be after a step.
LEMMA BecomesMakes ==
  ASSUME One!TypeOK
  PROVE  \A state \in {"Stopped", "SetupRequired", "Locked", "Unlocked", "DataError"},
            profile \in One!StoredProfiles \cup {NoFile}, vault_key \in 0 .. MaxKeys :
         One!Becomes("i1", state, profile, vault_key) =>
           /\ status' \in [{"i1"} -> {"Stopped", "SetupRequired", "Locked", "Unlocked", "DataError"}]
           /\ memory' \in [{"i1"} -> One!StoredProfiles \cup {NoFile}]
           /\ held' \in [{"i1"} -> 0 .. MaxKeys]
           /\ status'["i1"] = state /\ memory'["i1"] = profile /\ held'["i1"] = vault_key
  BY DEF One!Becomes, One!TypeOK

LEMMA KeysUnchanged ==
  ASSUME KeyInv,
         UNCHANGED <<file, device, data, status, memory, held, keys, rotations, alterations>>
  PROVE  KeyInv'
  BY DEF KeyInv, One!TypeOK, SessionFits, IsTheKey, One!Typed

\* Loading a sound profile locks it, and a session that ends leaves nothing behind.
LEMMA loadInv ==
  ASSUME KeyInv, One!load("i1")
  PROVE  KeyInv'
  <1>1. One!TypeOK /\ held["i1"] = 0 /\ memory["i1"] = NoFile
    BY DEF KeyInv, SessionFits, One!load
  <1>2. UNCHANGED <<file, device, data, keys, rotations, alterations>>
    BY DEF One!load, One!generated
  <1>3. CASE file \notin {NoFile, Damaged} /\ One!validate(file)
    <2>1. file \in One!StoredProfiles /\ One!Becomes("i1", "Locked", file, 0)
      BY <1>1, <1>3 DEF One!load, One!TypeOK
    <2>2. /\ status' \in [{"i1"} -> {"Stopped", "SetupRequired", "Locked", "Unlocked", "DataError"}]
          /\ memory' \in [{"i1"} -> One!StoredProfiles \cup {NoFile}]
          /\ held' \in [{"i1"} -> 0 .. MaxKeys]
          /\ status'["i1"] = "Locked" /\ memory'["i1"] = file /\ held'["i1"] = 0
      BY <1>1, <2>1, BecomesMakes, Marks
    <2>3. One!TypeOK'
      BY <1>1, <1>2, <2>2 DEF One!TypeOK
    <2>4. SessionFits'
      BY <1>2, <1>3, <2>1, <2>2 DEF SessionFits, One!validate
    <2>. QED
      BY <1>1, <1>2, <2>2, <2>3, <2>4 DEF KeyInv, IsTheKey, One!Typed
  <1>4. CASE file \in {NoFile, Damaged} \/ ~One!validate(file)
    <2>1. PICK state \in {"SetupRequired", "DataError"} :
             One!Becomes("i1", state, NoFile, 0) /\ (state = "SetupRequired" => file = NoFile)
      BY <1>4 DEF One!load
    <2>2. /\ status' \in [{"i1"} -> {"Stopped", "SetupRequired", "Locked", "Unlocked", "DataError"}]
          /\ memory' \in [{"i1"} -> One!StoredProfiles \cup {NoFile}]
          /\ held' \in [{"i1"} -> 0 .. MaxKeys]
          /\ status'["i1"] = state /\ memory'["i1"] = NoFile /\ held'["i1"] = 0
      BY <1>1, <2>1, BecomesMakes, Marks
    <2>3. One!TypeOK'
      BY <1>1, <1>2, <2>2 DEF One!TypeOK
    <2>4. SessionFits'
      BY <1>2, <2>1, <2>2 DEF SessionFits
    <2>. QED
      BY <1>1, <1>2, <2>2, <2>3, <2>4 DEF KeyInv, IsTheKey, One!Typed
  <1>. QED
    BY <1>3, <1>4

\* The session ends, or is locked, and the file stays.
LEMMA SessionEnds ==
  ASSUME KeyInv,
         UNCHANGED <<file, device, data, keys, rotations, alterations>>,
         \/ \E state \in {"Stopped", "DataError"} : One!Becomes("i1", state, NoFile, 0)
         \/ status["i1"] = "Unlocked" /\ One!Becomes("i1", "Locked", memory["i1"], 0)
         \/ /\ status["i1"] = "Locked"
            /\ One!Becomes("i1", "Unlocked", memory["i1"], file.wrapped_key.key)
  PROVE  KeyInv'
  <1>1. One!TypeOK /\ memory["i1"] \in One!StoredProfiles \cup {NoFile}
    BY DEF KeyInv, One!TypeOK
  <1>2. CASE \E state \in {"Stopped", "DataError"} : One!Becomes("i1", state, NoFile, 0)
    <2>1. PICK state \in {"Stopped", "DataError"} : One!Becomes("i1", state, NoFile, 0)
      BY <1>2
    <2>2. /\ status' \in [{"i1"} -> {"Stopped", "SetupRequired", "Locked", "Unlocked", "DataError"}]
          /\ memory' \in [{"i1"} -> One!StoredProfiles \cup {NoFile}]
          /\ held' \in [{"i1"} -> 0 .. MaxKeys]
          /\ status'["i1"] = state /\ memory'["i1"] = NoFile /\ held'["i1"] = 0
      BY <1>1, <2>1, BecomesMakes, Marks
    <2>3. One!TypeOK'
      BY <1>1, <2>2 DEF One!TypeOK
    <2>. QED
      BY <2>2, <2>3 DEF KeyInv, SessionFits, IsTheKey, One!Typed
  <1>3. CASE status["i1"] = "Unlocked" /\ One!Becomes("i1", "Locked", memory["i1"], 0)
    <2>1. /\ status' \in [{"i1"} -> {"Stopped", "SetupRequired", "Locked", "Unlocked", "DataError"}]
          /\ memory' \in [{"i1"} -> One!StoredProfiles \cup {NoFile}]
          /\ held' \in [{"i1"} -> 0 .. MaxKeys]
          /\ status'["i1"] = "Locked" /\ memory'["i1"] = memory["i1"] /\ held'["i1"] = 0
      BY <1>1, <1>3, BecomesMakes, Marks
    <2>2. One!TypeOK'
      BY <1>1, <2>1 DEF One!TypeOK
    <2>3. SessionFits'
      BY <1>3, <2>1, OpenSession DEF SessionFits, One!validate
    <2>. QED
      BY <2>1, <2>2, <2>3 DEF KeyInv, IsTheKey, One!Typed
  <1>4. CASE /\ status["i1"] = "Locked"
             /\ One!Becomes("i1", "Unlocked", memory["i1"], file.wrapped_key.key)
    <2>1. /\ file.wrapped_key.key \in 1 .. MaxKeys /\ IsTheKey(file.wrapped_key.key)
          /\ memory["i1"] = file /\ file \in One!StoredProfiles /\ One!validate(file)
      BY <1>4, LockedSession
    <2>2. /\ status' \in [{"i1"} -> {"Stopped", "SetupRequired", "Locked", "Unlocked", "DataError"}]
          /\ memory' \in [{"i1"} -> One!StoredProfiles \cup {NoFile}]
          /\ held' \in [{"i1"} -> 0 .. MaxKeys]
          /\ status'["i1"] = "Unlocked" /\ memory'["i1"] = memory["i1"]
          /\ held'["i1"] = file.wrapped_key.key
      BY <1>1, <1>4, <2>1, BecomesMakes, Marks
    <2>3. One!TypeOK'
      BY <1>1, <2>2 DEF One!TypeOK
    <2>4. SessionFits'
      BY <2>1, <2>2 DEF SessionFits, One!validate
    <2>5. IsTheKey(file.wrapped_key.key)'
      BY <2>1, <2>2 DEF IsTheKey
    <2>. QED
      BY <2>1, <2>2, <2>3, <2>4, <2>5 DEF KeyInv, One!Typed
  <1>. QED
    BY <1>2, <1>3, <1>4

\* A profile is made, or made anew, for the key of the session that opens with it.
LEMMA ProfileMade ==
  ASSUME KeyInv, UNCHANGED <<device, alterations>>,
         keys' \in 0 .. MaxKeys, rotations' \in rotations .. MaxRotations,
         file' \in One!StoredProfiles, One!validate(file'), MadeOf(file', One!Typed'),
         NEW k \in 1 .. MaxKeys, Holding(file', k), data' = data, data \in {0, k},
         One!Becomes("i1", "Unlocked", file', k)
  PROVE  KeyInv'
  <1>1. One!TypeOK
    BY DEF KeyInv
  <1>2. /\ status' \in [{"i1"} -> {"Stopped", "SetupRequired", "Locked", "Unlocked", "DataError"}]
        /\ memory' \in [{"i1"} -> One!StoredProfiles \cup {NoFile}]
        /\ held' \in [{"i1"} -> 0 .. MaxKeys]
        /\ status'["i1"] = "Unlocked" /\ memory'["i1"] = file' /\ held'["i1"] = k
    BY <1>1, BecomesMakes, Marks
  <1>3. One!TypeOK'
    BY <1>1, <1>2, Marks DEF One!TypeOK
  <1>4. SessionFits'
    BY <1>2 DEF SessionFits, One!validate
  <1>5. IsTheKey(k)'
    BY <1>2 DEF IsTheKey, Holding
  <1>6. file' # NoFile /\ k \in 0 .. MaxKeys
    BY Marks
  <1>. QED
    BY <1>3, <1>4, <1>5, <1>6 DEF KeyInv, MadeOf

LEMMA createInv ==
  ASSUME KeyInv, NEW password \in One!Typed, One!create_master_password("i1", password)
  PROVE  KeyInv'
  <1>1. /\ One!TypeOK /\ status["i1"] = "SetupRequired" /\ file = NoFile /\ data = 0
        /\ keys' = keys + 1 /\ rotations' = rotations + 1
        /\ keys < MaxKeys /\ rotations < MaxRotations
        /\ UNCHANGED <<device, data, alterations>>
    BY DEF KeyInv, SessionFits, One!create_master_password
  <1>2. /\ keys' \in 1 .. MaxKeys /\ rotations' \in 1 .. MaxRotations
        /\ rotations' \in rotations .. MaxRotations
    BY <1>1, Marks DEF One!TypeOK
  <1>3. /\ password \in One!Texts /\ rotations' \in One!Texts
        /\ password \in One!Typed' /\ rotations' \in One!Typed'
    <2>1. rotations \in 0 .. MaxRotations
      BY <1>1 DEF One!TypeOK
    <2>. QED
      BY <1>1, <1>2, <2>1, Marks DEF One!Texts, One!Typed, One!RecoveryKeys
  <1>4. PICK k \in 1 .. MaxKeys, r \in One!Texts : k = keys' /\ r = rotations'
    BY <1>2, <1>3
  <1>5. PICK w : w = One!Wrap(password, k, "profile")
    OBVIOUS
  <1>6. PICK v : v = One!Wrap(r, k, "recovery")
    OBVIOUS
  <1>7. /\ w \in One!Wrappers /\ One!valid_wrapped_key(w) /\ w.key = k /\ w.secret = password
        /\ v \in One!Wrappers /\ One!valid_wrapped_key(v) /\ v.key = k /\ v.secret = r
    BY <1>3, <1>5, <1>6, WrapMakes
  <1>8. file' = One!with_recovery(w, v) /\ One!Becomes("i1", "Unlocked", file', k)
    BY <1>1, <1>4, <1>5, <1>6 DEF One!create_master_password, One!Creatable,
       One!wrap_existing_vault_key, One!wrap_recovery_vault_key
  <1>9. /\ file' \in One!StoredProfiles /\ One!validate(file')
        /\ MadeOf(file', One!Typed') /\ Holding(file', k)
    BY <1>3, <1>4, <1>7, <1>8, WithRecovery DEF One!validate, MadeOf, Holding
  <1>. QED
    BY <1>1, <1>2, <1>8, <1>9, ProfileMade

\* The wrapper for the password gives up the one key, and is never found damaged.
LEMMA Unwraps ==
  ASSUME KeyInv, status["i1"] = "Locked"
  PROVE  /\ \A secret \in One!Texts :
              LET opened == One!unwrap_vault_key(secret, memory["i1"].wrapped_key)
              IN  \/ opened.is = "AuthenticationFailed"
                  \/ /\ opened.is = "Key" /\ opened.key = file.wrapped_key.key
                     /\ memory["i1"].wrapped_key.purpose = "profile"
         /\ memory["i1"].recovery_wrapped_key # NoWrapper => \A typed \in One!TypedRecoveryKeys :
              LET opened == One!unwrap_recovery_vault_key(typed, memory["i1"].recovery_wrapped_key)
              IN  \/ opened.is \in {"AuthenticationFailed", "InvalidRecoveryKey"}
                  \/ /\ opened.is = "Key" /\ opened.key = file.wrapped_key.key
                     /\ memory["i1"].recovery_wrapped_key.purpose = "recovery"
  <1>1. /\ memory["i1"] = file /\ One!validate(file)
        /\ Holding(file, file.wrapped_key.key)
    BY LockedSession DEF IsTheKey
  <1>2. One!valid_wrapped_key(file.wrapped_key)
    BY <1>1 DEF One!validate
  <1>3. file.recovery_wrapped_key # NoWrapper =>
          /\ One!valid_wrapped_key(file.recovery_wrapped_key)
          /\ file.recovery_wrapped_key.key = file.wrapped_key.key
    BY <1>1 DEF One!validate, Holding
  <1>. QED
    BY <1>1, <1>2, <1>3 DEF One!valid_wrapped_key, One!unwrap_vault_key,
       One!unwrap_vault_key_with_aad, One!unwrap_recovery_vault_key, One!Refused, One!Unwrapped

LEMMA unlockInv ==
  ASSUME KeyInv, NEW password \in One!Typed, One!unlock("i1", password)
  PROVE  KeyInv'
  <1>1. password \in One!Texts /\ status["i1"] = "Locked"
    BY TypedAreTexts DEF KeyInv, One!TypeOK, One!unlock
  <1>2. PICK opened : opened = One!unwrap_vault_key(password, memory["i1"].wrapped_key)
    OBVIOUS
  <1>3. One!Attempt("i1", opened, {"InvalidMetadata", "InvalidParameters"})
    BY <1>2 DEF One!unlock
  <1>4. CASE opened.is = "AuthenticationFailed"
    <2>. UNCHANGED <<file, device, data, status, memory, held, keys, rotations, alterations>>
      BY <1>3, <1>4 DEF One!Attempt, One!instances, One!generated
    <2>. QED
      BY KeysUnchanged
  <1>5. CASE opened.is = "Key" /\ opened.key = file.wrapped_key.key
    BY <1>1, <1>3, <1>5, SessionEnds DEF One!Attempt, One!generated
  <1>. QED
    BY <1>1, <1>2, <1>4, <1>5, Unwraps

LEMMA unlockPinInv ==
  ASSUME KeyInv, NEW pin \in Pins, One!unlock_with_pin("i1", pin)
  PROVE  KeyInv'
  <1>1. status["i1"] = "Locked" /\ memory["i1"].pin_wrapped_key # NoWrapper
    BY DEF One!unlock_with_pin
  <1>2. PICK opened : opened = IF One!Unprotect(memory["i1"].pin_wrapped_key)
                               THEN One!unwrap_pin_vault_key(pin, memory["i1"].pin_wrapped_key)
                               ELSE One!Refused("DeviceProtection")
    OBVIOUS
  <1>3. One!Attempt("i1", opened, {})
    BY <1>2 DEF One!unlock_with_pin
  <1>4. opened.is = "Key" => opened.key = file.wrapped_key.key
    <2>1. memory["i1"] = file /\ Holding(file, file.wrapped_key.key)
      BY <1>1, LockedSession DEF IsTheKey
    <2>. QED
      BY <1>1, <1>2, <2>1 DEF One!unwrap_pin_vault_key, One!Refused, One!Unwrapped, Holding
  <1>5. CASE opened.is = "Key"
    BY <1>1, <1>3, <1>4, <1>5, SessionEnds DEF One!Attempt, One!generated
  <1>6. CASE opened.is # "Key"
    <2>. UNCHANGED <<file, device, data, status, memory, held, keys, rotations, alterations>>
      BY <1>3, <1>6 DEF One!Attempt, One!instances, One!generated
    <2>. QED
      BY KeysUnchanged
  <1>. QED
    BY <1>5, <1>6

LEMMA recoverInv ==
  ASSUME KeyInv, NEW typed \in One!TypedRecoveryKeys, NEW password \in One!Typed,
         One!recover_master_password("i1", typed, password)
  PROVE  KeyInv'
  <1>1. /\ One!TypeOK /\ password \in One!Texts /\ status["i1"] = "Locked"
        /\ memory["i1"].recovery_wrapped_key # NoWrapper
    BY TypedAreTexts DEF KeyInv, One!TypeOK, One!recover_master_password
  <1>2. PICK opened :
           opened = One!unwrap_recovery_vault_key(typed, memory["i1"].recovery_wrapped_key)
    OBVIOUS
  <1>3. CASE opened.is # "Key"
    <2>1. One!Attempt("i1", opened, {"InvalidMetadata", "InvalidParameters"})
      BY <1>2, <1>3 DEF One!recover_master_password
    <2>2. opened.is \in {"AuthenticationFailed", "InvalidRecoveryKey"}
      BY <1>1, <1>2, <1>3, Unwraps
    <2>3. UNCHANGED <<file, device, data, status, memory, held, keys, rotations, alterations>>
      BY <2>1, <2>2 DEF One!Attempt, One!instances, One!generated
    <2>. QED
      BY <2>3, KeysUnchanged
  <1>4. CASE opened.is = "Key"
    <2>1. PICK k \in 1 .. MaxKeys : k = file.wrapped_key.key /\ opened.key = k /\ IsTheKey(k)
      BY <1>1, <1>2, <1>4, Unwraps, LockedSession
    <2>2. /\ rotations < MaxRotations /\ rotations' = rotations + 1
          /\ file' = One!with_recovery(One!wrap_existing_vault_key(password, k),
                                       One!wrap_recovery_vault_key(rotations + 1, k))
          /\ One!Becomes("i1", "Unlocked", file', k)
          /\ UNCHANGED <<device, data, keys, alterations>>
      BY <1>2, <1>4, <2>1 DEF One!recover_master_password
    <2>3. /\ keys' \in 0 .. MaxKeys
          /\ rotations' \in 1 .. MaxRotations
          /\ rotations' \in rotations .. MaxRotations
      BY <1>1, <2>2, Marks DEF One!TypeOK
    <2>4. /\ rotations' \in One!Texts
          /\ password \in One!Typed' /\ rotations' \in One!Typed'
      <3>1. rotations \in 0 .. MaxRotations
        BY <1>1 DEF One!TypeOK
      <3>. QED
        BY <2>2, <2>3, <3>1, Marks DEF One!Texts, One!Typed, One!RecoveryKeys
    <2>5. PICK r \in One!Texts : r = rotations'
      BY <2>4
    <2>6. PICK w : w = One!Wrap(password, k, "profile")
      OBVIOUS
    <2>7. PICK v : v = One!Wrap(r, k, "recovery")
      OBVIOUS
    <2>8. /\ w \in One!Wrappers /\ One!valid_wrapped_key(w) /\ w.key = k /\ w.secret = password
          /\ v \in One!Wrappers /\ One!valid_wrapped_key(v) /\ v.key = k /\ v.secret = r
      BY <1>1, <2>6, <2>7, WrapMakes
    <2>9. file' = One!with_recovery(w, v)
      BY <2>2, <2>5, <2>6, <2>7 DEF One!wrap_existing_vault_key, One!wrap_recovery_vault_key
    <2>10. /\ file' \in One!StoredProfiles /\ One!validate(file')
           /\ MadeOf(file', One!Typed') /\ Holding(file', k)
      BY <2>4, <2>5, <2>8, <2>9, WithRecovery DEF One!validate, MadeOf, Holding
    <2>11. data \in {0, k}
      BY <2>1 DEF IsTheKey
    <2>. QED
      BY <2>2, <2>3, <2>10, <2>11, ProfileMade
  <1>. QED
    BY <1>3, <1>4

\* A session replaces the profile by one for the same key.
LEMMA ProfileReplaced ==
  ASSUME KeyInv, status["i1"] = "Unlocked",
         UNCHANGED <<device, data, status, held, keys, alterations>>,
         rotations' \in rotations .. MaxRotations,
         NEW p, One!Replace("i1", p),
         p \in One!StoredProfiles, MadeOf(p, One!Typed'), Holding(p, held["i1"])
  PROVE  KeyInv'
  <1>1. One!TypeOK /\ IsTheKey(held["i1"]) /\ held["i1"] \in 1 .. MaxKeys
    BY OpenSession DEF KeyInv
  <1>2. CASE One!validate(p)
    <2>1. file' = p /\ memory' = [memory EXCEPT !["i1"] = p]
      BY <1>2 DEF One!Replace
    <2>2. memory' \in [{"i1"} -> One!StoredProfiles \cup {NoFile}] /\ memory'["i1"] = p
      BY <1>1, <2>1 DEF One!TypeOK
    <2>3. One!TypeOK'
      BY <1>1, <2>1, <2>2, Marks DEF One!TypeOK
    <2>4. SessionFits'
      BY <1>1, <1>2, <2>1, <2>2 DEF SessionFits, One!validate
    <2>5. IsTheKey(held["i1"])'
      BY <1>1, <2>1 DEF IsTheKey, Holding
    <2>6. file' # NoFile /\ held'["i1"] \in 0 .. MaxKeys
      BY <1>1, <2>1, Marks
    <2>. QED
      BY <2>1, <2>3, <2>4, <2>5, <2>6 DEF KeyInv, MadeOf
  <1>3. CASE ~One!validate(p)
    <2>1. UNCHANGED <<file, memory>>
      BY <1>3 DEF One!Replace
    <2>2. One!TypeOK' /\ SessionFits' /\ (file = NoFile => data = 0)'
      BY <1>1, <2>1, Marks DEF KeyInv, One!TypeOK, SessionFits
    <2>3. IsTheKey(held["i1"])'
      BY <1>1, <2>1 DEF IsTheKey
    <2>4. file' \in One!StoredProfiles => MadeOf(file', One!Typed')
      <3>1. One!Typed \subseteq One!Typed'
        <4>1. rotations \in 0 .. MaxRotations
          BY <1>1 DEF One!TypeOK
        <4>. QED
          BY <4>1, Marks DEF One!Typed
      <3>. QED
        BY <2>1, <3>1 DEF KeyInv, MadeOf
    <2>5. held'["i1"] \in 0 .. MaxKeys
      BY <1>1
    <2>. QED
      BY <2>2, <2>3, <2>4, <2>5 DEF KeyInv, MadeOf
  <1>. QED
    BY <1>2, <1>3

LEMMA regenerateInv ==
  ASSUME KeyInv, NEW password \in One!Typed, One!regenerate_recovery_key("i1", password)
  PROVE  KeyInv'
  <1>1. /\ status["i1"] = "Unlocked" /\ One!TypeOK
        /\ rotations < MaxRotations /\ rotations' = rotations + 1
        /\ UNCHANGED <<device, data, status, held, keys, alterations>>
    BY DEF One!regenerate_recovery_key, One!Verified, KeyInv
  <1>2. /\ rotations' \in 1 .. MaxRotations /\ rotations' \in rotations .. MaxRotations
        /\ rotations \in 0 .. MaxRotations
    BY <1>1, Marks DEF One!TypeOK
  <1>3. One!Typed \subseteq One!Typed' /\ rotations' \in One!Typed' /\ rotations' \in One!Texts
    BY <1>1, <1>2, Marks DEF One!Texts, One!Typed, One!RecoveryKeys
  <1>4. PICK r \in One!Texts, k \in 1 .. MaxKeys, old \in One!StoredProfiles :
           r = rotations' /\ k = held["i1"] /\ old = file
    BY <1>1, <1>3, OpenSession
  <1>5. PICK v : v = One!Wrap(r, k, "recovery")
    OBVIOUS
  <1>6. v \in One!Wrappers /\ v.key = k /\ v.secret = r
    BY <1>5, WrapMakes
  <1>7. /\ memory["i1"] = old /\ old \in One!StoredProfiles
        /\ Holding(old, k) /\ MadeOf(old, One!Typed)
    BY <1>1, <1>4, OpenSession DEF IsTheKey
  <1>8. PICK p : p = One!replacing_recovery_wrapper(old, v)
    OBVIOUS
  <1>9. One!Replace("i1", p)
    BY <1>4, <1>5, <1>7, <1>8 DEF One!regenerate_recovery_key, One!wrap_recovery_vault_key
  <1>10. p \in One!StoredProfiles /\ MadeOf(p, One!Typed') /\ Holding(p, k)
    BY <1>3, <1>4, <1>6, <1>7, <1>8, ReplacingRecovery DEF MadeOf, Holding
  <1>. QED
    BY <1>1, <1>2, <1>4, <1>9, <1>10, ProfileReplaced

LEMMA changeInv ==
  ASSUME KeyInv, NEW password \in One!Typed, NEW new \in One!Typed,
         One!change_master_password("i1", password, new)
  PROVE  KeyInv'
  <1>1. /\ status["i1"] = "Unlocked" /\ One!TypeOK
        /\ UNCHANGED <<device, data, status, held, keys, rotations, alterations>>
    BY DEF One!change_master_password, One!Verified, KeyInv, One!generated
  <1>2. rotations' \in rotations .. MaxRotations /\ new \in One!Texts /\ One!Typed' = One!Typed
    BY <1>1, TypedAreTexts, Marks DEF One!TypeOK, One!Typed
  <1>3. PICK k \in 1 .. MaxKeys, old \in One!StoredProfiles : k = held["i1"] /\ old = file
    BY <1>1, OpenSession
  <1>4. PICK w : w = One!Wrap(new, k, "profile")
    OBVIOUS
  <1>5. w \in One!Wrappers /\ w.key = k /\ w.secret = new
    BY <1>2, <1>4, WrapMakes
  <1>6. /\ memory["i1"] = old /\ old \in One!StoredProfiles
        /\ Holding(old, k) /\ MadeOf(old, One!Typed)
    BY <1>1, <1>3, OpenSession DEF IsTheKey
  <1>7. PICK p : p = One!replacing_master_wrapper(old, w)
    OBVIOUS
  <1>8. One!Replace("i1", p)
    BY <1>3, <1>4, <1>6, <1>7 DEF One!change_master_password, One!wrap_existing_vault_key
  <1>9. p \in One!StoredProfiles /\ MadeOf(p, One!Typed') /\ Holding(p, k)
    BY <1>2, <1>5, <1>6, <1>7, ReplacingMaster DEF MadeOf, Holding
  <1>. QED
    BY <1>1, <1>2, <1>3, <1>8, <1>9, ProfileReplaced

\* A PIN is set, changed or removed.
LEMMA pinInv ==
  ASSUME KeyInv, NEW password \in One!Typed,
         \/ One!remove_pin("i1", password)
         \/ \E pin \in Pins : One!replace_pin("i1", password, pin)
  PROVE  KeyInv'
  <1>1. /\ status["i1"] = "Unlocked" /\ One!TypeOK
        /\ UNCHANGED <<device, data, status, held, keys, rotations, alterations>>
    BY DEF One!remove_pin, One!replace_pin, One!Verified, KeyInv, One!generated
  <1>2. rotations' \in rotations .. MaxRotations /\ One!Typed' = One!Typed
    BY <1>1, Marks DEF One!TypeOK, One!Typed
  <1>3. PICK k \in 1 .. MaxKeys, old \in One!StoredProfiles, here \in Devices :
           k = held["i1"] /\ old = file /\ here = device
    BY <1>1, OpenSession DEF One!TypeOK
  <1>4. /\ memory["i1"] = old /\ old \in One!StoredProfiles
        /\ Holding(old, k) /\ MadeOf(old, One!Typed)
    BY <1>1, <1>3, OpenSession DEF IsTheKey
  <1>5. PICK w \in One!PinWrappers \cup {NoWrapper} :
           One!Replace("i1", One!replacing_pin_wrapper(old, w)) /\ (w # NoWrapper => w.key = k)
    <2>1. CASE One!remove_pin("i1", password)
      BY <1>4, <2>1 DEF One!remove_pin
    <2>2. CASE \E pin \in Pins : One!replace_pin("i1", password, pin)
      <3>1. PICK pin \in Pins : One!replace_pin("i1", password, pin)
        BY <2>2
      <3>2. PICK w : w = One!wrap_pin_vault_key(pin, here, k)
        OBVIOUS
      <3>. QED
        BY <1>3, <1>4, <3>1, <3>2, PinWrapMakes DEF One!replace_pin
    <2>. QED
      BY <2>1, <2>2
  <1>6. PICK p : p = One!replacing_pin_wrapper(old, w)
    OBVIOUS
  <1>7. p \in One!StoredProfiles /\ MadeOf(p, One!Typed') /\ Holding(p, k)
    BY <1>2, <1>4, <1>5, <1>6, ReplacingPin DEF MadeOf, Holding
  <1>. QED
    BY <1>1, <1>2, <1>3, <1>5, <1>6, <1>7, ProfileReplaced

LEMMA WriteStoreInv ==
  ASSUME KeyInv, One!WriteStore("i1")
  PROVE  KeyInv'
  <1>1. /\ status["i1"] = "Unlocked" /\ data' = held["i1"] /\ One!TypeOK
        /\ UNCHANGED <<file, device, status, memory, held, keys, rotations, alterations>>
    BY DEF One!WriteStore, One!instances, One!generated, KeyInv
  <1>2. /\ held["i1"] \in 1 .. MaxKeys /\ IsTheKey(held["i1"])
        /\ file \in One!StoredProfiles
    BY <1>1, OpenSession
  <1>3. One!TypeOK'
    BY <1>1, <1>2 DEF One!TypeOK
  <1>4. IsTheKey(held["i1"])' /\ held'["i1"] \in 0 .. MaxKeys
    BY <1>1, <1>2 DEF IsTheKey
  <1>5. SessionFits' /\ file' # NoFile
    BY <1>1, <1>2, Marks DEF KeyInv, SessionFits
  <1>. QED
    BY <1>1, <1>3, <1>4, <1>5 DEF KeyInv, One!Typed

LEMMA resetInv ==
  ASSUME KeyInv, One!reset("i1")
  PROVE  KeyInv'
  <1>1. /\ One!TypeOK /\ file' = NoFile /\ data' = 0
        /\ One!Becomes("i1", "SetupRequired", NoFile, 0)
        /\ UNCHANGED <<device, keys, rotations, alterations>>
    BY DEF One!reset, One!generated, KeyInv
  <1>2. /\ status' \in [{"i1"} -> {"Stopped", "SetupRequired", "Locked", "Unlocked", "DataError"}]
        /\ memory' \in [{"i1"} -> One!StoredProfiles \cup {NoFile}]
        /\ held' \in [{"i1"} -> 0 .. MaxKeys]
        /\ status'["i1"] = "SetupRequired" /\ memory'["i1"] = NoFile /\ held'["i1"] = 0
    BY <1>1, BecomesMakes, Marks
  <1>3. One!TypeOK'
    BY <1>1, <1>2, Marks DEF One!TypeOK
  <1>. QED
    BY <1>1, <1>2, <1>3, Marks DEF KeyInv, SessionFits, IsTheKey

\* The wrappers of a profile are changed in their costs, or broken.
LEMMA WrapperAltered ==
  \A w \in One!Wrappers, c \in Costs :
     /\ [w EXCEPT !.params = c] \in One!Wrappers /\ [w EXCEPT !.whole = FALSE] \in One!Wrappers
     /\ [w EXCEPT !.params = c].key = w.key /\ [w EXCEPT !.params = c].secret = w.secret
     /\ [w EXCEPT !.whole = FALSE].key = w.key /\ [w EXCEPT !.whole = FALSE].secret = w.secret
  BY DEF One!Wrappers

LEMMA PinWrapperAltered ==
  \A w \in One!PinWrappers, c \in Costs :
     /\ [w EXCEPT !.params = c] \in One!PinWrappers
     /\ [w EXCEPT !.whole = FALSE] \in One!PinWrappers
     /\ [w EXCEPT !.params = c].key = w.key /\ [w EXCEPT !.whole = FALSE].key = w.key
  BY DEF One!PinWrappers

\* From outside, no wrapper is given another key or another secret.
LEMMA AlterKeeps ==
  ASSUME NEW p \in One!StoredProfiles, NEW k \in 0 .. MaxKeys, NEW secrets,
         Holding(p, k), MadeOf(p, secrets),
         NEW q \in One!Alterations(p), q # Damaged
  PROVE  q \in One!StoredProfiles /\ Holding(q, k) /\ MadeOf(q, secrets)
  <1>. DEFINE Others == {"wrapped_key", "recovery_wrapped_key", "pin_wrapped_key"}
  <1>1. CASE \E v \in 1 .. 3 : q = [p EXCEPT !.format_version = v]
    BY <1>1 DEF One!StoredProfiles, Holding, MadeOf
  <1>2. CASE \E s \in One!Slots(p), x \in One!Wrappers \cup One!PinWrappers :
                /\ q = [p EXCEPT ![s] = x]
                /\ x.key = p[s].key
                /\ s # "pin_wrapped_key" => x \in One!Wrappers /\ x.secret = p[s].secret
                /\ s = "pin_wrapped_key" => x \in One!PinWrappers
    <2>1. PICK s \in One!Slots(p), x \in One!Wrappers \cup One!PinWrappers :
                /\ q = [p EXCEPT ![s] = x]
                /\ x.key = p[s].key
                /\ s # "pin_wrapped_key" => x \in One!Wrappers /\ x.secret = p[s].secret
                /\ s = "pin_wrapped_key" => x \in One!PinWrappers
      BY <1>2
    <2>2. s \in Others /\ p[s] # NoWrapper
      BY DEF One!Slots
    <2>3. CASE s = "wrapped_key"
      BY <2>1, <2>2, <2>3 DEF One!StoredProfiles, Holding, MadeOf
    <2>4. CASE s = "recovery_wrapped_key"
      BY <2>1, <2>2, <2>4 DEF One!StoredProfiles, Holding, MadeOf
    <2>5. CASE s = "pin_wrapped_key"
      BY <2>1, <2>2, <2>5 DEF One!StoredProfiles, Holding, MadeOf
    <2>. QED
      BY <2>2, <2>3, <2>4, <2>5
  <1>3. CASE \E s \in One!Slots(p) \ {"wrapped_key"} : q = [p EXCEPT ![s] = NoWrapper]
    BY <1>3 DEF One!Slots, One!StoredProfiles, Holding, MadeOf
  <1>4. CASE /\ p.recovery_wrapped_key # NoWrapper
             /\ q = [p EXCEPT !.wrapped_key = p.recovery_wrapped_key,
                              !.recovery_wrapped_key = p.wrapped_key]
    <2>1. PICK r : r = [p EXCEPT !.wrapped_key = p.recovery_wrapped_key]
      OBVIOUS
    <2>2. /\ r \in One!StoredProfiles /\ r.wrapped_key = p.recovery_wrapped_key
          /\ r.pin_wrapped_key = p.pin_wrapped_key
      BY <1>4, <2>1 DEF One!StoredProfiles
    <2>3. q = [r EXCEPT !.recovery_wrapped_key = p.wrapped_key]
      BY <1>4, <2>1
    <2>4. /\ q \in One!StoredProfiles /\ q.wrapped_key = p.recovery_wrapped_key
          /\ q.recovery_wrapped_key = p.wrapped_key /\ q.pin_wrapped_key = p.pin_wrapped_key
      BY <2>2, <2>3 DEF One!StoredProfiles
    <2>. QED
      BY <1>4, <2>4 DEF Holding, MadeOf
  <1>5. ASSUME NEW s \in One!Slots(p), NEW c \in Costs,
               q = [p EXCEPT ![s].params = c] \/ q = [p EXCEPT ![s].whole = FALSE]
        PROVE  \E t \in One!Slots(p), x \in One!Wrappers \cup One!PinWrappers :
                /\ q = [p EXCEPT ![t] = x]
                /\ x.key = p[t].key
                /\ t # "pin_wrapped_key" => x \in One!Wrappers /\ x.secret = p[t].secret
                /\ t = "pin_wrapped_key" => x \in One!PinWrappers
    <2>1. s \in Others /\ p[s] # NoWrapper
      BY DEF One!Slots
    <2>2. /\ s # "pin_wrapped_key" => p[s] \in One!Wrappers
          /\ s = "pin_wrapped_key" => p[s] \in One!PinWrappers
      BY <2>1, SlotsOfProfile
    <2>3. PICK old : old = p[s]
      OBVIOUS
    <2>4. \/ q = [p EXCEPT ![s] = [old EXCEPT !.params = c]]
          \/ q = [p EXCEPT ![s] = [old EXCEPT !.whole = FALSE]]
      BY <1>5, <2>3
    <2>. QED
      BY <2>2, <2>3, <2>4, WrapperAltered, PinWrapperAltered
  <1>6. One!production \in Costs
    BY Marks
  <1>. QED
    BY <1>1, <1>2, <1>3, <1>4, <1>5, <1>6 DEF One!Alterations, One!Slots

LEMMA AlterInv ==
  ASSUME KeyInv, One!Alter
  PROVE  KeyInv'
  <1>1. /\ One!TypeOK /\ status["i1"] = "Stopped" /\ file \in One!StoredProfiles
        /\ file' \in One!Alterations(file)
        /\ alterations' = alterations + 1 /\ alterations < MaxAlterations
        /\ UNCHANGED <<device, data, status, memory, held, keys, rotations>>
    BY DEF KeyInv, One!TypeOK, One!Alter, One!instances, One!generated
  <1>2. PICK k \in 0 .. MaxKeys : IsTheKey(k)
    BY DEF KeyInv
  <1>3. Holding(file, k) /\ MadeOf(file, One!Typed)
    BY <1>1, <1>2 DEF KeyInv, IsTheKey
  <1>4. /\ file' \in One!StoredProfiles \cup {Damaged} /\ file' # NoFile
        /\ file' \in One!StoredProfiles => Holding(file', k) /\ MadeOf(file', One!Typed)
    <2>1. PICK p \in One!StoredProfiles : p = file
      BY <1>1
    <2>2. PICK q \in One!Alterations(p) : q = file'
      BY <1>1, <2>1
    <2>3. PICK secrets : secrets = One!Typed
      OBVIOUS
    <2>. QED
      BY <1>3, <2>1, <2>2, <2>3, AlterKeeps, Marks
  <1>5. One!TypeOK'
    BY <1>1, <1>4, Marks DEF One!TypeOK
  <1>6. SessionFits'
    BY <1>1 DEF KeyInv, SessionFits
  <1>7. IsTheKey(k)'
    BY <1>1, <1>2, <1>4 DEF IsTheKey, Holding
  <1>. QED
    BY <1>1, <1>4, <1>5, <1>6, <1>7 DEF KeyInv, MadeOf, One!Typed

LEMMA MoveInv ==
  ASSUME KeyInv, NEW other \in Devices, One!MoveTo(other)
  PROVE  KeyInv'
  BY
     DEF KeyInv, One!TypeOK, SessionFits, IsTheKey, One!Typed, One!MoveTo, One!instances,
         One!generated

LEMMA KeyNextInv ==
  ASSUME KeyInv, [One!Next]_(One!vars)
  PROVE  KeyInv'
  <1>1. CASE UNCHANGED One!vars
    BY <1>1, KeysUnchanged DEF One!vars, One!instances, One!generated
  <1>2. CASE One!Operate("i1")
    <2>1. CASE One!Stop("i1") \/ One!lock("i1")
      BY <2>1, SessionEnds DEF One!Stop, One!lock, One!generated
    <2>. QED
      BY <1>2, <2>1, loadInv, WriteStoreInv, resetInv, createInv, unlockInv, regenerateInv,
         pinInv, changeInv, recoverInv, unlockPinInv DEF One!Operate
  <1>. QED
    BY <1>1, <1>2, MoveInv, AlterInv DEF One!Next

LEMMA KeyInitInv ==
  ASSUME One!Init
  PROVE  KeyInv
  <1>1. /\ device \in Devices /\ data = 0 /\ rotations = 0 /\ alterations = 0
        /\ status = [i \in {"i1"} |-> "Stopped"] /\ memory = [i \in {"i1"} |-> NoFile]
        /\ held = [i \in {"i1"} |-> 0]
    BY DEF One!Init
  <1>2. /\ keys \in 0 .. MaxKeys
        /\ \/ file = NoFile
           \/ /\ file \in One!StoredProfiles /\ Holding(file, 1)
              /\ MadeOf(file, One!Typed)
    <2>1. CASE file = NoFile /\ keys = 0
      BY <2>1, Marks
    <2>2. CASE /\ \E p \in Passwords :
                    file = [format_version |-> 1, wrapped_key |-> One!wrap_existing_vault_key(p, 1),
                            recovery_wrapped_key |-> NoWrapper, pin_wrapped_key |-> NoWrapper]
               /\ keys = 1
      <3>1. PICK p \in Passwords :
                    file = [format_version |-> 1, wrapped_key |-> One!wrap_existing_vault_key(p, 1),
                            recovery_wrapped_key |-> NoWrapper, pin_wrapped_key |-> NoWrapper]
        BY <2>2
      <3>2. PICK w : w = One!Wrap(p, 1, "profile")
        OBVIOUS
      <3>3. w \in One!Wrappers /\ w.key = 1 /\ w.secret = p
        BY <3>2, WrapMakes, Marks DEF One!Texts
      <3>. QED
        BY <2>2, <3>1, <3>2, <3>3, Marks
           DEF One!wrap_existing_vault_key, One!StoredProfiles, Holding, MadeOf, One!Typed
    <2>. QED
      BY <2>1, <2>2 DEF One!Init
  <1>3. One!TypeOK
    BY <1>1, <1>2, Marks DEF One!TypeOK
  <1>4. IsTheKey(1) /\ 1 \in 0 .. MaxKeys
    BY <1>1, <1>2, Marks DEF IsTheKey
  <1>. QED
    BY <1>1, <1>2, <1>3, <1>4, Marks DEF KeyInv, SessionFits

\* What the invariant means for the profile of an open session.
LEMMA KeyIsSound ==
  ASSUME KeyInv
  PROVE  /\ One!TypeOK
         /\ One!ChangesAreAccepted
         /\ One!DerivationIsAffordable
         /\ One!OneVaultKey
  <1>1. One!TypeOK
    BY DEF KeyInv
  <1>2. One!ChangesAreAccepted
    <2>. SUFFICES ASSUME status["i1"] = "Unlocked"
                  PROVE  \A p \in One!Replacements("i1") : One!validate(p)
      BY DEF One!ChangesAreAccepted
    <2>1. PICK k \in 1 .. MaxKeys, old \in One!StoredProfiles, here \in Devices :
             k = held["i1"] /\ old = file /\ here = device
      BY <1>1, OpenSession DEF One!TypeOK
    <2>2. One!validate(old) /\ memory["i1"] = old
      BY <2>1, OpenSession
    <2>3. \A w : One!valid_wrapped_key(w) =>
             One!validate(One!replacing_recovery_wrapper(old, w))
      <3>. SUFFICES ASSUME NEW w, One!valid_wrapped_key(w), NEW q,
                           q = One!replacing_recovery_wrapper(old, w)
                    PROVE  One!validate(q)
        OBVIOUS
      <3>. QED
        BY <2>2, ReplacingRecovery DEF One!validate
    <2>4. \A w \in One!Wrappers : One!valid_wrapped_key(w) =>
             One!validate(One!replacing_master_wrapper(old, w))
      <3>. TAKE w \in One!Wrappers
      <3>1. PICK p : p = One!replacing_master_wrapper(old, w)
        OBVIOUS
      <3>. QED
        BY <2>2, <3>1, ReplacingMaster DEF One!validate
    <2>5. \A w \in One!PinWrappers \cup {NoWrapper} :
             (w # NoWrapper => One!valid_pin_wrapped_key(w)) =>
                One!validate(One!replacing_pin_wrapper(old, w))
      <3>. TAKE w \in One!PinWrappers \cup {NoWrapper}
      <3>1. PICK p : p = One!replacing_pin_wrapper(old, w)
        OBVIOUS
      <3>. QED
        BY <2>2, <3>1, ReplacingPin DEF One!validate
    <2>6. \A p \in Passwords : p \in One!Texts
      BY DEF One!Texts
    <2>7. One!validate(One!replacing_recovery_wrapper(old, One!wrap_recovery_vault_key(1, k)))
      BY <2>3, Productive DEF One!wrap_recovery_vault_key, One!Wrap, One!valid_wrapped_key
    <2>8. \A p \in Passwords :
             One!validate(One!replacing_master_wrapper(old, One!wrap_existing_vault_key(p, k)))
      BY <2>4, <2>6, WrapMakes DEF One!wrap_existing_vault_key
    <2>9. \A p \in Pins :
             One!validate(One!replacing_pin_wrapper(old, One!wrap_pin_vault_key(p, here, k)))
      BY <2>5, PinWrapMakes
    <2>10. One!validate(One!replacing_pin_wrapper(old, NoWrapper))
      BY <2>5
    <2>. QED
      BY <2>1, <2>2, <2>7, <2>8, <2>9, <2>10 DEF One!Replacements
  <1>3. One!DerivationIsAffordable
    <2>. SUFFICES ASSUME memory["i1"] # NoFile, NEW s \in One!Slots(memory["i1"])
                  PROVE  /\ memory["i1"][s].params.memory_kib <= 2 * One!production.memory_kib
                         /\ One!Work(memory["i1"][s].params) <= 2 * One!Work(One!production)
      BY DEF One!DerivationIsAffordable
    <2>1. /\ memory["i1"] = file /\ file \in One!StoredProfiles /\ One!validate(file)
          /\ s \in {"wrapped_key", "recovery_wrapped_key", "pin_wrapped_key"} /\ file[s] # NoWrapper
      BY DEF KeyInv, SessionFits, One!Slots, One!TypeOK
    <2>2. PICK w : w = file[s]
      OBVIOUS
    <2>3. w \in One!Wrappers \cup One!PinWrappers
      BY <2>1, <2>2, SlotsOfProfile
    <2>4. One!valid_wrapped_key(w)
      <3>1. CASE s = "wrapped_key"
        BY <2>1, <2>2, <3>1 DEF One!validate
      <3>2. CASE s = "recovery_wrapped_key"
        BY <2>1, <2>2, <3>2 DEF One!validate
      <3>3. CASE s = "pin_wrapped_key"
        BY <2>1, <2>2, <3>3 DEF One!validate, One!valid_pin_wrapped_key
      <3>. QED
        BY <2>1, <3>1, <3>2, <3>3
    <2>5. PICK cost \in Costs : cost = w.params
      BY <2>3 DEF One!Wrappers, One!PinWrappers
    <2>6. One!validate_production(cost)
      BY <2>4, <2>5 DEF One!valid_wrapped_key
    <2>. QED
      BY <2>1, <2>2, <2>5, <2>6, Affordable
  <1>4. One!OneVaultKey
    <2>. SUFFICES ASSUME status["i1"] = "Unlocked"
                  PROVE  /\ data \in {0, held["i1"]}
                         /\ \A s \in One!Slots(memory["i1"]) : memory["i1"][s].key = held["i1"]
      BY DEF One!OneVaultKey
    <2>. QED
      BY OpenSession DEF IsTheKey, Holding, One!Slots
  <1>. QED
    BY <1>1, <1>2, <1>3, <1>4

\* A sound profile is not called damaged by what is typed, and it is opened by a wrapper
\* that was made for it.
LEMMA OpensSoundly ==
  ASSUME KeyInv, One!Next
  PROVE  One!OpensItsOwnSlot /\ One!StaysSound
  <1>. DEFINE Opens ==
         IF memory'["i1"] # memory["i1"] THEN memory["i1"].recovery_wrapped_key.purpose = "recovery"
         ELSE \/ memory["i1"].wrapped_key.purpose = "profile"
              \/ /\ memory["i1"].pin_wrapped_key # NoWrapper
                 /\ memory["i1"].pin_wrapped_key.device = device
  <1>. SUFFICES ASSUME status["i1"] \in {"Locked", "Unlocked"}
                PROVE  /\ status'["i1"] # "DataError"
                       /\ status["i1"] = "Locked" /\ status'["i1"] = "Unlocked" => Opens
    BY DEF One!OpensItsOwnSlot, One!StaysSound
  <1>1. One!TypeOK
    BY DEF KeyInv
  <1>2. \A state, profile, vault_key :
           One!Becomes("i1", state, profile, vault_key) =>
              status'["i1"] = state /\ memory'["i1"] = profile
    BY <1>1 DEF One!Becomes, One!TypeOK
  <1>3. CASE UNCHANGED status
    BY <1>3
  <1>4. CASE One!Stop("i1") \/ One!lock("i1") \/ One!reset("i1")
    BY <1>2, <1>4 DEF One!Stop, One!lock, One!reset
  <1>5. CASE \E password \in One!Typed : One!unlock("i1", password)
    <2>1. PICK password \in One!Typed : One!unlock("i1", password)
      BY <1>5
    <2>2. password \in One!Texts /\ status["i1"] = "Locked"
      BY <1>1, <2>1, TypedAreTexts DEF One!TypeOK, One!unlock
    <2>3. PICK opened : opened = One!unwrap_vault_key(password, memory["i1"].wrapped_key)
      OBVIOUS
    <2>4. One!Attempt("i1", opened, {"InvalidMetadata", "InvalidParameters"})
      BY <2>1, <2>3 DEF One!unlock
    <2>5. \/ opened.is = "AuthenticationFailed"
          \/ opened.is = "Key" /\ memory["i1"].wrapped_key.purpose = "profile"
      BY <2>2, <2>3, Unwraps
    <2>. QED
      BY <1>2, <2>2, <2>4, <2>5 DEF One!Attempt, One!instances
  <1>6. CASE \E pin \in Pins : One!unlock_with_pin("i1", pin)
    <2>1. PICK pin \in Pins : One!unlock_with_pin("i1", pin)
      BY <1>6
    <2>2. PICK opened : opened = IF One!Unprotect(memory["i1"].pin_wrapped_key)
                                 THEN One!unwrap_pin_vault_key(pin, memory["i1"].pin_wrapped_key)
                                 ELSE One!Refused("DeviceProtection")
      OBVIOUS
    <2>3. One!Attempt("i1", opened, {}) /\ memory["i1"].pin_wrapped_key # NoWrapper
      BY <2>1, <2>2 DEF One!unlock_with_pin
    <2>4. opened.is = "Key" => memory["i1"].pin_wrapped_key.device = device
      BY <2>2 DEF One!Refused, One!Unprotect
    <2>. QED
      BY <1>2, <2>3, <2>4 DEF One!Attempt, One!instances
  <1>7. CASE \E password \in One!Typed, typed \in One!TypedRecoveryKeys :
                One!recover_master_password("i1", typed, password)
    <2>1. PICK password \in One!Typed, typed \in One!TypedRecoveryKeys :
             One!recover_master_password("i1", typed, password)
      BY <1>7
    <2>2. PICK opened :
             opened = One!unwrap_recovery_vault_key(typed, memory["i1"].recovery_wrapped_key)
      OBVIOUS
    <2>3. /\ status["i1"] = "Locked" /\ memory["i1"].recovery_wrapped_key # NoWrapper
          /\ IF opened.is = "Key"
             THEN \E profile : One!Becomes("i1", "Unlocked", profile, opened.key)
                               /\ profile.wrapped_key.purpose = "profile"
             ELSE One!Attempt("i1", opened, {"InvalidMetadata", "InvalidParameters"})
      BY <2>1, <2>2 DEF One!recover_master_password, One!with_recovery,
         One!wrap_existing_vault_key, One!Wrap
    <2>4. \/ opened.is \in {"AuthenticationFailed", "InvalidRecoveryKey"}
          \/ opened.is = "Key" /\ memory["i1"].recovery_wrapped_key.purpose = "recovery"
      BY <2>2, <2>3, Unwraps
    <2>. QED
      BY <1>2, <2>3, <2>4 DEF One!Attempt, One!instances
  <1>8. \/ UNCHANGED status
        \/ One!Stop("i1") \/ One!lock("i1") \/ One!reset("i1")
        \/ \E password \in One!Typed : One!unlock("i1", password)
        \/ \E pin \in Pins : One!unlock_with_pin("i1", pin)
        \/ \E password \in One!Typed, typed \in One!TypedRecoveryKeys :
              One!recover_master_password("i1", typed, password)
    <2>1. ASSUME One!Operate("i1") 
          PROVE  \/ UNCHANGED status
                 \/ One!Stop("i1") \/ One!lock("i1") \/ One!reset("i1")
                 \/ \E password \in One!Typed : One!unlock("i1", password)
                 \/ \E pin \in Pins : One!unlock_with_pin("i1", pin)
                 \/ \E password \in One!Typed, typed \in One!TypedRecoveryKeys :
                       One!recover_master_password("i1", typed, password)
      BY <2>1 DEF One!Operate, One!load, One!create_master_password, One!WriteStore,
         One!regenerate_recovery_key, One!remove_pin, One!change_master_password,
         One!replace_pin, One!instances
    <2>. QED
      BY <2>1 DEF One!Next, One!MoveTo, One!Alter, One!instances
  <1>. QED
    BY <1>3, <1>4, <1>5, <1>6, <1>7, <1>8

\* The recovery key of a new slot is the one that has just been generated.
LEMMA Generated ==
  ASSUME One!TypeOK, rotations < MaxRotations, rotations' = rotations + 1,
         NEW k \in 1 .. MaxKeys, NEW r, r = rotations',
         NEW w \in One!Wrappers, NEW v, v = One!wrap_recovery_vault_key(r, k)
  PROVE  /\ v \in One!Wrappers
         /\ One!RecoveryKeyOf(One!with_recovery(w, v)) = r
         /\ \A p \in One!StoredProfiles :
              One!RecoveryKeyOf(One!replacing_recovery_wrapper(p, v)) = r
  <1>1. r \in One!Texts
    BY Marks DEF One!TypeOK, One!Texts, One!RecoveryKeys
  <1>2. v \in One!Wrappers /\ v.secret = r /\ v # NoWrapper
    BY <1>1, WrapMakes, Marks DEF One!wrap_recovery_vault_key
  <1>3. \A p \in One!StoredProfiles :
              One!RecoveryKeyOf(One!replacing_recovery_wrapper(p, v)) = r
    <2>. TAKE p \in One!StoredProfiles
    <2>1. PICK q : q = One!replacing_recovery_wrapper(p, v)
      OBVIOUS
    <2>. QED
      BY <1>2, <2>1, ReplacingRecovery, Marks DEF One!RecoveryKeyOf
  <1>4. One!RecoveryKeyOf(One!with_recovery(w, v)) = r
    <2>1. PICK p : p = One!with_recovery(w, v)
      OBVIOUS
    <2>. QED
      BY <1>2, <2>1, WithRecovery, Marks DEF One!RecoveryKeyOf
  <1>. QED
    BY <1>2, <1>3, <1>4

\* Recovery keys are numbered as they are generated, and only the latest gets into a slot.
LEMMA ReplacedStay ==
  ASSUME KeyInv, One!Next
  PROVE  One!StaysReplaced
  <1>. SUFFICES ASSUME UNCHANGED alterations, file' # NoFile,
                       One!RecoveryKeyOf(file) \notin Passwords,
                       One!RecoveryKeyOf(file') \notin Passwords
                PROVE  One!RecoveryKeyOf(file') >= One!RecoveryKeyOf(file)
    BY DEF One!StaysReplaced
  <1>1. /\ One!TypeOK /\ One!RecoveryKeyOf(file) \in 0 .. rotations
        /\ rotations \in 0 .. MaxRotations
    BY Marks DEF KeyInv, One!TypeOK, MadeOf, One!RecoveryKeyOf, One!Typed
  <1>. DEFINE Latest == rotations' = rotations + 1 /\ One!RecoveryKeyOf(file') = rotations'
              Same == /\ file \in One!StoredProfiles /\ file' \in One!StoredProfiles
                      /\ file'.recovery_wrapped_key = file.recovery_wrapped_key
  <1>2. ASSUME NEW password \in One!Typed, One!create_master_password("i1", password)
        PROVE  UNCHANGED file \/ Latest
    <2>1. PICK k \in 1 .. MaxKeys : k = keys'
      BY <1>1, <1>2, Marks DEF One!create_master_password, One!TypeOK
    <2>2. PICK r, v : r = rotations' /\ v = One!wrap_recovery_vault_key(r, k)
      OBVIOUS
    <2>3. PICK w \in One!Wrappers : w = One!wrap_existing_vault_key(password, k)
      BY <1>1, WrapMakes, TypedAreTexts DEF One!wrap_existing_vault_key
    <2>4. /\ UNCHANGED file \/ file' = One!with_recovery(w, v)
          /\ rotations < MaxRotations /\ rotations' = rotations + 1
      BY <1>2, <2>1, <2>2, <2>3 DEF One!create_master_password
    <2>. QED
      BY <1>1, <2>1, <2>2, <2>3, <2>4, Generated
  <1>3. ASSUME NEW password \in One!Typed, NEW typed \in One!TypedRecoveryKeys,
               One!recover_master_password("i1", typed, password)
        PROVE  UNCHANGED file \/ Latest
    <2>1. PICK opened :
             opened = One!unwrap_recovery_vault_key(typed, memory["i1"].recovery_wrapped_key)
      OBVIOUS
    <2>2. CASE opened.is # "Key"
      BY <1>3, <2>1, <2>2 DEF One!recover_master_password, One!Attempt
    <2>3. CASE opened.is = "Key"
      <3>1. /\ status["i1"] = "Locked" /\ memory["i1"].recovery_wrapped_key # NoWrapper
            /\ rotations < MaxRotations /\ rotations' = rotations + 1
            /\ file' = One!with_recovery(One!wrap_existing_vault_key(password, opened.key),
                                         One!wrap_recovery_vault_key(rotations + 1, opened.key))
        BY <1>3, <2>1, <2>3 DEF One!recover_master_password
      <3>2. PICK k \in 1 .. MaxKeys : k = opened.key
        BY <2>1, <2>3, <3>1, Unwraps, LockedSession
      <3>3. PICK r, v : r = rotations' /\ v = One!wrap_recovery_vault_key(r, k)
        OBVIOUS
      <3>4. PICK w \in One!Wrappers : w = One!wrap_existing_vault_key(password, k)
        BY <1>1, WrapMakes, TypedAreTexts DEF One!wrap_existing_vault_key
      <3>. QED
        BY <1>1, <3>1, <3>2, <3>3, <3>4, Generated
    <2>. QED
      BY <2>2, <2>3
  <1>4. ASSUME NEW password \in One!Typed, One!regenerate_recovery_key("i1", password)
        PROVE  UNCHANGED file \/ Latest
    <2>1. PICK k \in 1 .. MaxKeys, old \in One!StoredProfiles :
             k = held["i1"] /\ old = memory["i1"]
      BY <1>4, OpenSession DEF One!regenerate_recovery_key, One!Verified
    <2>2. PICK r, v : r = rotations' /\ v = One!wrap_recovery_vault_key(r, k)
      OBVIOUS
    <2>3. /\ UNCHANGED file \/ file' = One!replacing_recovery_wrapper(old, v)
          /\ rotations < MaxRotations /\ rotations' = rotations + 1
      BY <1>4, <2>1, <2>2 DEF One!regenerate_recovery_key, One!Replace
    <2>4. PICK w \in One!Wrappers : w = old.wrapped_key
      BY SlotsOfProfile
    <2>. QED
      BY <1>1, <2>1, <2>2, <2>3, <2>4, Generated
  <1>5. ASSUME NEW password \in One!Typed, NEW new \in One!Typed,
               One!change_master_password("i1", password, new)
        PROVE  UNCHANGED file \/ Same
    <2>1. PICK old \in One!StoredProfiles, k \in 1 .. MaxKeys :
             old = memory["i1"] /\ old = file /\ k = held["i1"]
      BY <1>5, OpenSession DEF One!change_master_password, One!Verified
    <2>2. PICK w : w = One!wrap_existing_vault_key(new, k)
      OBVIOUS
    <2>3. UNCHANGED file \/ file' = One!replacing_master_wrapper(old, w)
      BY <1>5, <2>1, <2>2 DEF One!change_master_password, One!Replace
    <2>4. w \in One!Wrappers
      BY <1>1, <2>2, WrapMakes, TypedAreTexts DEF One!wrap_existing_vault_key
    <2>. QED
      BY <2>1, <2>3, <2>4, ReplacingMaster
  <1>6. ASSUME NEW password \in One!Typed,
               \/ One!remove_pin("i1", password)
               \/ \E pin \in Pins : One!replace_pin("i1", password, pin)
        PROVE  UNCHANGED file \/ Same
    <2>1. PICK old \in One!StoredProfiles, k \in 1 .. MaxKeys, here \in Devices :
             old = memory["i1"] /\ old = file /\ k = held["i1"] /\ here = device
      BY <1>1, <1>6, OpenSession DEF One!remove_pin, One!replace_pin, One!Verified, One!TypeOK
    <2>2. \/ UNCHANGED file
          \/ \E w \in One!PinWrappers \cup {NoWrapper} : file' = One!replacing_pin_wrapper(old, w)
      BY <1>6, <2>1, PinWrapMakes DEF One!remove_pin, One!replace_pin, One!Replace
    <2>. QED
      BY <2>1, <2>2, ReplacingPin
  <1>7. UNCHANGED file \/ Latest \/ Same
    <2>1. CASE One!Operate("i1")
      BY <1>2, <1>3, <1>4, <1>5, <1>6, <2>1
         DEF One!Operate, One!load, One!Stop, One!lock, One!WriteStore, One!reset,
             One!unlock, One!unlock_with_pin, One!Attempt
    <2>2. CASE One!Alter
      BY <1>1, <2>2, Marks DEF One!Alter, One!TypeOK
    <2>. QED
      BY <2>1, <2>2 DEF One!Next, One!MoveTo
  <1>8. CASE Same
    BY <1>1, <1>8, Marks DEF One!RecoveryKeyOf
  <1>. QED
    BY <1>1, <1>7, <1>8

LEMMA KeyIsGuarded ==
  ASSUME KeyInv, One!Next
  PROVE  One!OpensItsOwnSlot /\ One!StaysReplaced /\ One!StaysSound
  BY OpensSoundly, ReplacedStay
---------------------------------------------------------------------------
(* Two instances that wait for the profile to be set up.                   *)

Waits ==
    status \in [{"i1", "i2"} -> {"Stopped", "SetupRequired", "Locked", "Unlocked", "DataError"}]

LEMMA SetupSteps ==
  ASSUME NEW i \in {"i1", "i2"}, Two!Operate(i), status' # status
  PROVE  \E state \in {"Stopped", "SetupRequired", "Locked", "Unlocked", "DataError"} :
            \E profile, vault_key : Two!Becomes(i, state, profile, vault_key)
  <1>1. ASSUME NEW opened, NEW damage, Two!Attempt(i, opened, damage)
        PROVE  \E state \in {"Stopped", "SetupRequired", "Locked", "Unlocked", "DataError"} :
                  \E profile, vault_key : Two!Becomes(i, state, profile, vault_key)
    BY <1>1 DEF Two!Attempt, Two!instances
  <1>2. CASE Two!load(i) \/ Two!Stop(i) \/ Two!lock(i) \/ Two!reset(i)
    BY <1>2 DEF Two!load, Two!Stop, Two!lock, Two!reset
  <1>3. CASE \E password \in Two!Typed : Two!create_master_password(i, password)
    BY <1>3 DEF Two!create_master_password
  <1>4. CASE \/ \E password \in Two!Typed : Two!unlock(i, password)
             \/ \E pin \in {"n1"} : Two!unlock_with_pin(i, pin)
    BY <1>1, <1>4 DEF Two!unlock, Two!unlock_with_pin
  <1>5. CASE \E password \in Two!Typed, typed \in Two!TypedRecoveryKeys :
                Two!recover_master_password(i, typed, password)
    BY <1>1, <1>5 DEF Two!recover_master_password
  <1>. QED
    BY <1>2, <1>3, <1>4, <1>5
       DEF Two!Operate, Two!WriteStore, Two!regenerate_recovery_key, Two!remove_pin,
           Two!change_master_password, Two!replace_pin, Two!instances

LEMMA SetupNextInv ==
  ASSUME Waits, [Two!Next]_(Two!vars)
  PROVE  Waits'
  <1>1. CASE UNCHANGED status
    BY <1>1 DEF Waits
  <1>2. ASSUME NEW i \in {"i1", "i2"}, Two!Operate(i), status' # status
        PROVE  Waits'
    BY <1>2, SetupSteps DEF Waits, Two!Becomes
  <1>. QED
    BY <1>1, <1>2 DEF Two!Next, Two!MoveTo, Two!Alter, Two!instances, Two!vars

\* An instance that waits sets the profile up where there is none, and else reports it.
LEMMA SetupOverwritesNothing ==
  ASSUME Waits, Two!Next
  PROVE  Two!OverwritesNothing
  <1>. SUFFICES ASSUME NEW i \in {"i1", "i2"}, status[i] = "SetupRequired",
                       status'[i] \in {"Unlocked", "DataError"}, file # NoFile
                PROVE  UNCHANGED file
    BY DEF Two!OverwritesNothing
  <1>1. PICK j \in {"i1", "i2"} : Two!Operate(j)
    BY DEF Two!Next, Two!MoveTo, Two!Alter, Two!instances
  <1>2. PICK state : status' = [status EXCEPT ![j] = state]
    BY <1>1, SetupSteps DEF Two!Becomes
  <1>3. j = i /\ status'[i] = state
    BY <1>2 DEF Waits
  <1>4. CASE \E password \in Two!Typed : Two!create_master_password(i, password)
    BY <1>4 DEF Two!create_master_password, Two!Creatable
  <1>5. CASE Two!Stop(i)
    BY <1>5 DEF Two!Stop, Two!Becomes, Waits
  <1>. QED
    BY <1>1, <1>3, <1>4, <1>5
       DEF Two!Operate, Two!load, Two!lock, Two!WriteStore, Two!reset, Two!unlock,
           Two!unlock_with_pin, Two!recover_master_password, Two!regenerate_recovery_key,
           Two!remove_pin, Two!change_master_password, Two!replace_pin, Two!Verified

---------------------------------------------------------------------------
(* The display profile.                                                    *)

\* The picture of a profile is in its file, if that is there and can be decoded.
Holds(profile) ==
    profile.avatar # Absent => avatars[profile.avatar] \in {profile.picture, Absent, Spoilt}

\* A new picture goes to a file that the saved profile does not use.
Elsewhere ==
    /\ op.target.avatar \in Display!Files
    /\ metadata \in Display!Metadata => metadata.avatar # op.target.avatar

\* Where the other pictures have been removed, the one of the profile is left.
Cleaned(files) ==
    \A f \in files : avatars[f] # Absent => op.kind = "replace" /\ f = op.target.avatar

DisplayInv ==
    /\ Display!TypeOK
    /\ metadata \in Display!Metadata => Holds(metadata)
    /\ op.at = "avatar" => op.kind = "replace" /\ Elsewhere
    /\ op.at \in {"avatar", "metadata"} /\ Display!Saving => op.target \in Display!Metadata
    /\ op.at = "metadata" /\ Display!Saving => Holds(op.target)
    /\ op.at = "metadata" /\ op.kind = "replace" => Elsewhere
    /\ op.at = "metadata" /\ op.kind = "remove" => op.target.avatar = Absent
    /\ op.at = "clean" =>
          /\ Cleaned(Display!Files \ op.files)
          /\ op.kind = "reset" => metadata = Absent
          /\ op.kind # "reset" =>
                /\ op.kind \in {"remove", "replace"}
                /\ op.target.avatar \notin op.files
                /\ metadata \in {op.target, Spoilt}
    /\ op.at = "saved" /\ op.kind # "keep" => Cleaned(Display!Files)

LEMMA KindsOfFile ==
    /\ Absent # Spoilt /\ Default \notin Names
    /\ Absent \notin Pictures /\ Spoilt \notin Pictures
    /\ Absent \notin Display!Files
    /\ Absent \notin Display!Metadata /\ Spoilt \notin Display!Metadata
  BY FilesAssumption DEF Display!ProfileAssumption

LEMMA Profiles ==
  ASSUME NEW profile \in Display!Metadata
  PROVE  /\ profile.name \in Names
         /\ profile.avatar # Absent =>
               profile.avatar \in Display!Files /\ profile.picture \in Pictures
  BY DEF Display!Metadata

\* Where an operation has come to is all that changes.
LEMMA GoesTo ==
  ASSUME Display!TypeOK, NEW place \in Display!Places, Display!GoTo(place)
  PROVE  /\ op' \in Display!Ops
         /\ op'.at = place /\ op'.kind = op.kind /\ op'.target = op.target /\ op'.files = op.files
  BY DEF Display!TypeOK, Display!Ops, Display!GoTo

\* An operation that has ended, or was cut short, leaves nothing to say of it.
LEMMA EndsIdle ==
  ASSUME DisplayInv, op' = Display!Idle, shown' = shown \/ shown' = Display!Loaded.name,
         UNCHANGED <<metadata, avatars>>
  PROVE  DisplayInv'
  <1>1. /\ Display!Idle.at = "idle" /\ Display!Idle.kind = "none"
        /\ Display!Idle \in Display!Ops
    BY DEF Display!Idle, Display!Ops, Display!Places
  <1>2. Display!Loaded.name \in Names \cup {Default}
    BY Profiles DEF DisplayInv, Display!TypeOK, Display!Loaded
  <1>3. Display!TypeOK'
    BY <1>1, <1>2 DEF DisplayInv, Display!TypeOK
  <1>. QED
    BY <1>1, <1>3 DEF DisplayInv, Holds, Display!Saving

LEMMA SaveInv ==
  ASSUME DisplayInv, NEW name \in Names, NEW update \in Display!Updates,
         Display!Save(name, update)
  PROVE  DisplayInv'
  <1>. DEFINE target == Display!Target(name, update)
  <1>1. Display!Loaded.avatar # Absent => metadata \in Display!Metadata /\ Display!Loaded = metadata
    BY DEF Display!Loaded, DisplayInv, Display!TypeOK
  <1>2. CASE update.kind = "replace"
    <2>1. update.type \in Types /\ update.picture \in Pictures
      BY <1>2 DEF Display!Updates
    <2>2. target = [name |-> name,
                    avatar |-> [slot |-> Display!NextSlot(Display!Loaded), type |-> update.type],
                    picture |-> update.picture]
      BY <1>2 DEF Display!Target
    <2>3. Display!NextSlot(Display!Loaded) \in {"a", "b"}
      BY DEF Display!NextSlot
    <2>4. [slot |-> Display!NextSlot(Display!Loaded), type |-> update.type] \in Display!Files
      BY <2>1, <2>3 DEF Display!Files, Display!Slots
    <2>5. target \in Display!Metadata /\ target.avatar \in Display!Files
      BY <2>1, <2>2, <2>4 DEF Display!Metadata
    <2>6. metadata \in Display!Metadata => metadata.avatar # target.avatar
      <3>1. CASE Display!Loaded.avatar = Absent
        BY <2>5, <3>1, KindsOfFile DEF Display!Loaded
      <3>2. CASE Display!Loaded.avatar # Absent
        <4>1. metadata.avatar \in Display!Files /\ Display!Loaded = metadata
          BY <1>1, <3>2, Profiles
        <4>2. metadata.avatar.slot # Display!NextSlot(Display!Loaded)
          BY <3>2, <4>1 DEF Display!NextSlot, Display!Files, Display!Slots
        <4>3. target.avatar.slot = Display!NextSlot(Display!Loaded)
          BY <2>2
        <4>. QED
          BY <4>2, <4>3
      <3>. QED
        BY <3>1, <3>2
    <2>7. op' = [kind |-> "replace", target |-> target, files |-> {}, at |-> "avatar"]
      BY <1>2 DEF Display!Save
    <2>8. op' \in Display!Ops /\ op'.kind = "replace" /\ op'.target = target /\ op'.at = "avatar"
      BY <2>5, <2>7 DEF Display!Ops, Display!Places
    <2>. QED
      BY <2>5, <2>6, <2>8 DEF DisplayInv, Display!TypeOK, Display!Save, Holds, Elsewhere
  <1>3. CASE update.kind # "replace"
    <2>1. update.kind \in {"keep", "remove"}
      BY <1>3 DEF Display!Updates
    <2>2. /\ target \in Display!Metadata /\ Holds(target)
          /\ update.kind = "remove" => target.avatar = Absent
      <3>1. CASE update.kind = "keep" /\ Display!LoadAvatar(Display!Loaded.avatar) # Absent
        <4>1. Display!Loaded.avatar # Absent
          BY <3>1 DEF Display!LoadAvatar
        <4>2. metadata \in Display!Metadata /\ Display!Loaded = metadata
          BY <1>1, <4>1
        <4>3. target = [name |-> name, avatar |-> metadata.avatar, picture |-> metadata.picture]
          BY <3>1, <4>2 DEF Display!Target
        <4>4. metadata.avatar \in Display!Files /\ metadata.picture \in Pictures
          BY <4>1, <4>2, Profiles
        <4>. QED
          BY <3>1, <4>2, <4>3, <4>4 DEF Display!Metadata, DisplayInv, Holds
      <3>2. CASE ~(update.kind = "keep" /\ Display!LoadAvatar(Display!Loaded.avatar) # Absent)
        <4>1. target = [name |-> name, avatar |-> Absent]
          BY <1>3, <3>2 DEF Display!Target
        <4>. QED
          BY <4>1 DEF Display!Metadata, Holds
      <3>. QED
        BY <3>1, <3>2
    <2>3. op' = [kind |-> update.kind, target |-> target, files |-> {}, at |-> "metadata"]
      BY <1>3 DEF Display!Save
    <2>4. op' \in Display!Ops /\ op'.kind = update.kind /\ op'.target = target /\ op'.at = "metadata"
      BY <2>1, <2>2, <2>3 DEF Display!Ops, Display!Places
    <2>. QED
      BY <1>3, <2>2, <2>4 DEF DisplayInv, Display!TypeOK, Display!Save, Holds
  <1>. QED
    BY <1>2, <1>3

LEMMA WriteAvatarInv ==
  ASSUME DisplayInv, Display!WriteAvatar
  PROVE  DisplayInv'
  <1>1. /\ op.at = "avatar" /\ op.kind = "replace" /\ op.target \in Display!Metadata
        /\ Elsewhere /\ Display!TypeOK
    BY DEF DisplayInv, Display!WriteAvatar, Display!Saving
  <1>2. op.target.avatar # Absent /\ op.target.picture \in Pictures
    BY <1>1, KindsOfFile, Profiles DEF Elsewhere
  <1>3. CASE /\ avatars' = [avatars EXCEPT ![op.target.avatar] = op.target.picture]
             /\ Display!GoTo("metadata")
             /\ UNCHANGED <<metadata, shown>>
    <2>1. /\ op' \in Display!Ops
          /\ op'.at = "metadata" /\ op'.kind = op.kind /\ op'.target = op.target
      BY <1>1, <1>3, GoesTo DEF Display!Places
    <2>2. /\ avatars' \in [Display!Files -> Pictures \cup {Absent, Spoilt}]
          /\ avatars'[op.target.avatar] = op.target.picture
          /\ \A f \in Display!Files : f # op.target.avatar => avatars'[f] = avatars[f]
      BY <1>1, <1>2, <1>3 DEF Display!TypeOK, Elsewhere
    <2>3. Display!TypeOK'
      BY <1>1, <1>3, <2>1, <2>2 DEF Display!TypeOK
    <2>4. metadata' \in Display!Metadata => Holds(metadata)'
      BY <1>1, <1>3, <2>2, Profiles DEF DisplayInv, Elsewhere, Holds
    <2>5. Holds(op.target)'
      BY <1>2, <2>1, <2>2 DEF Holds
    <2>6. Elsewhere'
      BY <1>1, <1>3, <2>1 DEF Elsewhere
    <2>. QED
      BY <1>1, <2>1, <2>3, <2>4, <2>5, <2>6 DEF DisplayInv
  <1>4. CASE Display!GoTo("failed") /\ UNCHANGED <<avatars, metadata, shown>>
    <2>1. op' \in Display!Ops /\ op'.at = "failed"
      BY <1>1, <1>4, GoesTo DEF Display!Places
    <2>. QED
      BY <1>4, <2>1 DEF DisplayInv, Display!TypeOK, Holds
  <1>. QED
    BY <1>3, <1>4 DEF Display!WriteAvatar

LEMMA WriteMetadataInv ==
  ASSUME DisplayInv, Display!WriteMetadata
  PROVE  DisplayInv'
  <1>1. /\ op.at = "metadata" /\ Display!Saving /\ op.target \in Display!Metadata
        /\ Holds(op.target) /\ Display!TypeOK
        /\ metadata' = op.target /\ UNCHANGED <<avatars, shown>>
    BY DEF DisplayInv, Display!WriteMetadata
  <1>2. op \in Display!Ops
    BY <1>1 DEF Display!TypeOK
  <1>3. Holds(metadata)'
    BY <1>1 DEF Holds
  <1>4. CASE op.kind = "keep"
    <2>1. op' \in Display!Ops /\ op'.at = "saved" /\ op'.kind = "keep"
      BY <1>1, <1>4, GoesTo DEF Display!WriteMetadata, Display!Places
    <2>. QED
      BY <1>1, <1>3, <2>1 DEF DisplayInv, Display!TypeOK
  <1>5. CASE op.kind # "keep"
    <2>1. op' = [op EXCEPT !.at = "clean", !.files = Display!Files \ {op.target.avatar}]
      BY <1>5 DEF Display!WriteMetadata
    <2>2. /\ op' \in Display!Ops
          /\ op'.at = "clean" /\ op'.kind = op.kind /\ op'.target = op.target
          /\ op'.files = Display!Files \ {op.target.avatar}
      BY <1>2, <2>1 DEF Display!Ops, Display!Places
    <2>3. op.kind \in {"remove", "replace"}
      BY <1>1, <1>5 DEF Display!Saving
    <2>4. Cleaned(Display!Files \ op.files)'
      <3>. SUFFICES ASSUME NEW f \in Display!Files, f \notin op'.files, avatars[f] # Absent
                    PROVE  op.kind = "replace" /\ f = op.target.avatar
        BY <1>1, <2>2 DEF Cleaned
      <3>1. f = op.target.avatar
        BY <2>2
      <3>. QED
        BY <1>1, <2>3, <3>1, KindsOfFile DEF DisplayInv
    <2>. QED
      BY <1>1, <1>3, <2>2, <2>3, <2>4 DEF DisplayInv, Display!TypeOK
  <1>. QED
    BY <1>4, <1>5

LEMMA MetadataFailsInv ==
  ASSUME DisplayInv, Display!MetadataFails
  PROVE  DisplayInv'
  <1>1. Display!TypeOK /\ UNCHANGED <<metadata, shown>>
    BY DEF DisplayInv, Display!MetadataFails
  <1>2. op' \in Display!Ops /\ op'.at = "failed"
    BY <1>1, GoesTo DEF Display!MetadataFails, Display!Places
  <1>3. /\ avatars' \in [Display!Files -> Pictures \cup {Absent, Spoilt}]
        /\ \A f \in Display!Files : avatars'[f] \in {avatars[f], Absent}
    BY <1>1 DEF Display!MetadataFails, Display!Undo, Display!TypeOK
  <1>4. metadata' \in Display!Metadata => Holds(metadata)'
    BY <1>1, <1>3, Profiles DEF DisplayInv, Holds
  <1>. QED
    BY <1>1, <1>2, <1>3, <1>4 DEF DisplayInv, Display!TypeOK

LEMMA RemoveFileInv ==
  ASSUME DisplayInv, Display!RemoveFile
  PROVE  DisplayInv'
  <1>1. Display!TypeOK /\ op.at = "clean" /\ op \in Display!Ops /\ UNCHANGED <<metadata, shown>>
    BY DEF DisplayInv, Display!RemoveFile, Display!TypeOK
  <1>2. PICK f \in op.files :
           \/ /\ avatars' = [avatars EXCEPT ![f] = Absent]
              /\ op' = [op EXCEPT !.files = @ \ {f}]
           \/ Display!GoTo("failed") /\ UNCHANGED avatars
    BY DEF Display!RemoveFile, Display!ToClean
  <1>3. f \in Display!Files /\ op.files \subseteq Display!Files
    BY <1>1 DEF Display!Ops
  <1>4. CASE Display!GoTo("failed") /\ UNCHANGED avatars
    <2>1. op' \in Display!Ops /\ op'.at = "failed"
      BY <1>1, <1>4, GoesTo DEF Display!Places
    <2>. QED
      BY <1>1, <1>4, <2>1 DEF DisplayInv, Display!TypeOK, Holds
  <1>5. CASE /\ avatars' = [avatars EXCEPT ![f] = Absent]
             /\ op' = [op EXCEPT !.files = @ \ {f}]
    <2>1. /\ op' \in Display!Ops
          /\ op'.at = "clean" /\ op'.kind = op.kind /\ op'.target = op.target
          /\ op'.files = op.files \ {f}
      BY <1>1, <1>5 DEF Display!Ops
    <2>2. /\ avatars' \in [Display!Files -> Pictures \cup {Absent, Spoilt}]
          /\ avatars'[f] = Absent
          /\ \A g \in Display!Files : g # f => avatars'[g] = avatars[g]
      BY <1>1, <1>3, <1>5 DEF Display!TypeOK
    <2>3. metadata' \in Display!Metadata => Holds(metadata)'
      BY <1>1, <2>2, Profiles DEF DisplayInv, Holds
    <2>4. Cleaned(Display!Files \ op.files)'
      BY <1>1, <1>3, <2>1, <2>2 DEF DisplayInv, Cleaned
    <2>. QED
      BY <1>1, <2>1, <2>2, <2>3, <2>4 DEF DisplayInv, Display!TypeOK
  <1>. QED
    BY <1>2, <1>4, <1>5

LEMMA CleaningEndsInv ==
  ASSUME DisplayInv, Display!CleaningEnds
  PROVE  DisplayInv'
  <1>1. /\ Display!TypeOK /\ op.at = "clean" /\ op.files = {}
        /\ UNCHANGED <<metadata, avatars, shown>>
    BY DEF DisplayInv, Display!CleaningEnds, Display!ToClean
  <1>2. /\ op' \in Display!Ops
        /\ op'.at = "saved" /\ op'.kind = op.kind /\ op'.target = op.target
    BY <1>1, GoesTo DEF Display!CleaningEnds, Display!Places
  <1>3. Cleaned(Display!Files)'
    BY <1>1, <1>2 DEF DisplayInv, Cleaned
  <1>. QED
    BY <1>1, <1>2, <1>3 DEF DisplayInv, Display!TypeOK, Holds

LEMMA ResetInv ==
  ASSUME DisplayInv, Display!Reset \/ Display!RemoveMetadata
  PROVE  DisplayInv'
  <1>1. Display!TypeOK /\ op \in Display!Ops /\ UNCHANGED <<avatars, shown>>
    BY DEF DisplayInv, Display!Reset, Display!RemoveMetadata, Display!TypeOK
  <1>2. CASE Display!Reset
    <2>1. op' \in Display!Ops /\ op'.kind = "reset" /\ op'.at = "metadata"
      BY <1>2 DEF Display!Reset, Display!Idle, Display!Ops, Display!Places
    <2>. QED
      BY <1>1, <1>2, <2>1 DEF DisplayInv, Display!TypeOK, Display!Reset, Holds, Display!Saving
  <1>3. CASE metadata' = Absent /\ op' = [op EXCEPT !.at = "clean", !.files = Display!Files]
             /\ op.kind = "reset"
    <2>1. /\ op' \in Display!Ops
          /\ op'.at = "clean" /\ op'.kind = "reset" /\ op'.files = Display!Files
      BY <1>1, <1>3 DEF Display!Ops, Display!Places
    <2>2. Cleaned(Display!Files \ op.files)'
      BY <2>1 DEF Cleaned
    <2>. QED
      BY <1>1, <1>3, <2>1, <2>2, KindsOfFile DEF DisplayInv, Display!TypeOK
  <1>4. CASE Display!GoTo("failed") /\ UNCHANGED metadata
    <2>1. op' \in Display!Ops /\ op'.at = "failed"
      BY <1>1, <1>4, GoesTo DEF Display!Places
    <2>. QED
      BY <1>1, <1>4, <2>1 DEF DisplayInv, Display!TypeOK, Holds
  <1>. QED
    BY <1>2, <1>3, <1>4 DEF Display!RemoveMetadata

\* What happens to the files from outside.
LEMMA SpoilInv ==
  ASSUME DisplayInv,
         Display!SpoilMetadata \/ (\E f \in Display!Files : Display!SpoilAvatar(f))
  PROVE  DisplayInv'
  <1>1. CASE Display!SpoilMetadata
    BY <1>1, KindsOfFile
    DEF DisplayInv, Display!SpoilMetadata, Display!TypeOK, Holds, Elsewhere, Cleaned,
        Display!Saving
  <1>2. ASSUME NEW f \in Display!Files, Display!SpoilAvatar(f)
        PROVE  DisplayInv'
    <2>1. /\ avatars' \in [Display!Files -> Pictures \cup {Absent, Spoilt}]
          /\ avatars[f] # Absent
          /\ \A g \in Display!Files : avatars'[g] \in {avatars[g], Spoilt}
          /\ \A g \in Display!Files : g # f => avatars'[g] = avatars[g]
          /\ UNCHANGED <<metadata, op, shown>>
      BY <1>2, KindsOfFile DEF Display!SpoilAvatar, DisplayInv, Display!TypeOK
    <2>2. ASSUME NEW profile \in Display!Metadata, Holds(profile)
          PROVE  profile.avatar # Absent =>
                    avatars'[profile.avatar] \in {profile.picture, Absent, Spoilt}
      BY <2>1, <2>2, Profiles DEF Holds
    <2>3. Display!TypeOK'
      BY <2>1 DEF DisplayInv, Display!TypeOK
    <2>4. metadata' \in Display!Metadata => Holds(metadata)'
      BY <2>1, <2>2 DEF DisplayInv, Holds
    <2>5. op'.at = "metadata" /\ Display!Saving' => Holds(op.target)'
      BY <2>1, <2>2 DEF DisplayInv, Holds, Display!Saving
    <2>6. ASSUME NEW files \in SUBSET Display!Files, Cleaned(files)
          PROVE  \A g \in files : avatars'[g] # Absent => op.kind = "replace" /\ g = op.target.avatar
      BY <2>1, <2>6 DEF Cleaned
    <2>7. op'.at = "clean" => Cleaned(Display!Files \ op.files)'
      BY <2>1, <2>6 DEF DisplayInv, Cleaned
    <2>8. op'.at = "saved" /\ op'.kind # "keep" => Cleaned(Display!Files)'
      BY <2>1, <2>6 DEF DisplayInv, Cleaned
    <2>. QED
      BY <2>1, <2>3, <2>4, <2>5, <2>7, <2>8 DEF DisplayInv, Elsewhere, Display!Saving
  <1>. QED
    BY <1>1, <1>2

LEMMA DisplayNextInv ==
  ASSUME DisplayInv, [Display!Next]_(Display!vars)
  PROVE  DisplayInv'
  <1>1. CASE Display!Return \/ Display!Restart
    BY <1>1, EndsIdle DEF Display!Return, Display!Restart
  <1>2. CASE UNCHANGED Display!vars
    BY <1>2
    DEF Display!vars, DisplayInv, Display!TypeOK, Holds, Elsewhere, Cleaned, Display!Saving
  <1>. QED
    BY <1>1, <1>2, SaveInv, WriteAvatarInv, WriteMetadataInv, MetadataFailsInv, RemoveFileInv,
       CleaningEndsInv, ResetInv, SpoilInv DEF Display!Next

LEMMA DisplayInitInv ==
  ASSUME Display!Init
  PROVE  DisplayInv
  <1>1. /\ Display!Idle.at = "idle" /\ Display!Idle.kind = "none"
        /\ Display!Idle \in Display!Ops
    BY DEF Display!Idle, Display!Ops, Display!Places
  <1>2. Display!TypeOK
    BY <1>1 DEF Display!Init, Display!TypeOK
  <1>. QED
    BY <1>1, <1>2, KindsOfFile DEF Display!Init, DisplayInv, Display!Saving

\* What the invariant says of the names, the pictures and the files.
LEMMA DisplayIsSound ==
  ASSUME DisplayInv
  PROVE  Display!TypeOK /\ Display!NameAndPictureMatch /\ Display!NothingIsLeftBehind
  <1>1. Display!NameAndPictureMatch
    <2>1. SUFFICES ASSUME Display!ShownPicture # Absent
                   PROVE  Display!ShownPicture = metadata.picture
      BY DEF Display!NameAndPictureMatch
    <2>2. /\ Display!Loaded.avatar # Absent
          /\ avatars[Display!Loaded.avatar] \in Pictures
          /\ Display!ShownPicture = avatars[Display!Loaded.avatar]
      BY <2>1 DEF Display!ShownPicture, Display!LoadAvatar
    <2>3. Display!Loaded = metadata /\ metadata \in Display!Metadata
      BY <2>2 DEF Display!Loaded, DisplayInv, Display!TypeOK
    <2>. QED
      BY <2>2, <2>3, KindsOfFile DEF DisplayInv, Holds
  <1>2. Display!NothingIsLeftBehind
    BY DEF DisplayInv, Cleaned, Display!NothingIsLeftBehind
  <1>. QED
    BY <1>1, <1>2 DEF DisplayInv

\* The picture in use is written by nobody.
LEMMA PictureStays ==
  ASSUME DisplayInv, [Display!Next]_(Display!vars), metadata' = metadata,
         metadata \in Display!Metadata
  PROVE  \/ Display!LoadAvatar(metadata.avatar)' = Display!LoadAvatar(metadata.avatar)
         \/ \E f \in Display!Files : Display!SpoilAvatar(f)
  <1>1. CASE metadata.avatar = Absent
    BY <1>1 DEF Display!LoadAvatar
  <1>2. CASE metadata.avatar # Absent
    <2>. SUFFICES ASSUME ~\E f \in Display!Files : Display!SpoilAvatar(f)
                  PROVE  avatars'[metadata.avatar] = avatars[metadata.avatar]
      BY DEF Display!LoadAvatar
    <2>1. /\ metadata.avatar \in Display!Files
          /\ avatars \in [Display!Files -> Pictures \cup {Absent, Spoilt}]
      BY <1>2, Profiles DEF DisplayInv, Display!TypeOK
    <2>2. CASE UNCHANGED avatars
      BY <2>2
    <2>3. CASE Display!WriteAvatar
      BY <2>1, <2>3 DEF Display!WriteAvatar, DisplayInv, Elsewhere
    <2>4. CASE Display!MetadataFails
      BY <2>1, <2>4 DEF Display!MetadataFails, Display!Undo, DisplayInv, Elsewhere
    <2>5. CASE Display!RemoveFile
      <3>1. PICK f \in op.files :
               avatars' = [avatars EXCEPT ![f] = Absent] \/ UNCHANGED avatars
        BY <2>5 DEF Display!RemoveFile, Display!ToClean
      <3>2. f # metadata.avatar
        BY <2>5, <3>1, KindsOfFile DEF Display!RemoveFile, DisplayInv
      <3>. QED
        BY <2>1, <3>1, <3>2
    <2>6. UNCHANGED avatars \/ Display!WriteAvatar \/ Display!MetadataFails \/ Display!RemoveFile
      BY DEF Display!Next, Display!vars, Display!Save, Display!WriteMetadata,
         Display!CleaningEnds, Display!Reset, Display!RemoveMetadata, Display!Return,
         Display!Restart, Display!SpoilMetadata
    <2>. QED
      BY <2>2, <2>3, <2>4, <2>5, <2>6
  <1>. QED
    BY <1>1, <1>2

---------------------------------------------------------------------------
(* The opening of a store.                                                 *)

LEMMA NoProcessIsNone == NoProcess \notin Processes
  BY FilesAssumption DEF Opening!OpeningAssumption

InTransaction == {"create", "convert", "index", "copy", "commit"}

OpeningPlaces ==
    {"closed", "initialize", "migrate", "counted", "validate", "open"} \cup InTransaction

StoreTypes ==
    /\ store \in Opening!Files
    /\ work \in Opening!Files
    /\ pc \in [Processes -> OpeningPlaces]

\* What is known of the file where opening has come to.  Only the two encrypted
\* stores are migrated, and folders.db is opened on its version alone.
FitsFile(at) ==
    /\ at = "open" => /\ store.version = Opening!Latest
                      /\ store.schema = Opening!Schema(Opening!Latest) \/ Opening!TakenOnTrust
    /\ at \in {"migrate", "convert", "copy"} => kind # "folders"
    /\ at = "validate" /\ kind = "folders" => store.version = 1

\* What the writer has made of the file so far.
FitsWork(at) ==
    /\ at \in {"create", "convert"} => work = store
    /\ at \in {"index", "copy", "commit"} => Opening!Whole(store)
    /\ at = "index" => work.rows = store.rows
    /\ at = "copy" => work.aside = store.rows
    /\ at = "commit" => /\ store.rows \subseteq work.rows
                        /\ \/ kind # "folders" /\ work = store
                           \/ /\ work.version = Opening!Latest
                              /\ work.schema = Opening!Schema(Opening!Latest)

ProcessesFit == \A p \in Processes : FitsFile(pc[p]) /\ FitsWork(pc[p])

OpeningInv ==
    /\ StoreTypes
    /\ Opening!LockIsInTransaction
    /\ Opening!DiskIsWhole
    /\ ProcessesFit

\* What the file may be opened as.
LEMMA Versions ==
    /\ Opening!Latest \in 1..2
    /\ kind = "folders" => Opening!Latest = 1 /\ Opening!Schema(Opening!Latest) = "v1"
    /\ kind # "folders" => Opening!Latest = 2 /\ Opening!Schema(Opening!Latest) = "v2"
    /\ Opening!Schema(Opening!Latest) # "alien" /\ Opening!Schema(Opening!Latest) # "none"
    /\ Opening!Schema(1) = "v1" /\ Opening!Schema(2) = "v2"
  BY DEF Opening!Latest, Opening!Schema

LEMMA OpeningInitInv ==
  ASSUME Opening!Init
  PROVE  OpeningInv
  <1>1. /\ store \in Opening!Files /\ work = store
        /\ pc = [p \in Processes |-> "closed"] /\ writer = NoProcess
    BY DEF Opening!Init
  <1>2. Opening!Whole(store) \/ store.schema = "alien"
    BY DEF Opening!Init
  <1>3. StoreTypes
    BY <1>1 DEF StoreTypes, OpeningPlaces
  <1>4. Opening!LockIsInTransaction
    BY <1>1, NoProcessIsNone DEF Opening!LockIsInTransaction
  <1>5. Opening!DiskIsWhole
    BY <1>2 DEF Opening!DiskIsWhole
  <1>6. ProcessesFit
    BY <1>1 DEF ProcessesFit, FitsFile, FitsWork
  <1>. QED
    BY <1>3, <1>4, <1>5, <1>6 DEF OpeningInv

\* A step that leaves the file alone: one process goes from one place to another and
\* takes, keeps or gives back the write lock accordingly; if it changes the
\* transaction, then nobody else is in one.
LEMMA FileKept ==
  ASSUME OpeningInv, NEW p \in Processes, NEW to \in OpeningPlaces,
         UNCHANGED <<kind, store>>,
         pc' = [pc EXCEPT ![p] = to],
         work' \in Opening!Files,
         work' = work \/ writer \in {NoProcess, p},
         to \in InTransaction => writer \in {NoProcess, p} /\ writer' = p,
         to \notin InTransaction => writer' = IF writer = p THEN NoProcess ELSE writer,
         FitsFile(to), FitsWork(to)'
  PROVE  OpeningInv'
  <1>1. /\ StoreTypes /\ Opening!LockIsInTransaction /\ Opening!DiskIsWhole
        /\ ProcessesFit
    BY DEF OpeningInv
  <1>2. /\ pc'[p] = to
        /\ \A q \in Processes \ {p} : pc'[q] = pc[q]
    BY <1>1 DEF StoreTypes
  <1>3. /\ Opening!Latest' = Opening!Latest /\ Opening!Whole(store)' = Opening!Whole(store)
        /\ Opening!TakenOnTrust' = Opening!TakenOnTrust
    BY DEF Opening!Latest, Opening!Whole, Opening!Schema, Opening!TakenOnTrust
  <1>4. StoreTypes'
    BY <1>1 DEF StoreTypes
  <1>5. Opening!LockIsInTransaction'
    BY <1>1, <1>2, NoProcessIsNone DEF Opening!LockIsInTransaction, InTransaction
  <1>6. Opening!DiskIsWhole'
    BY <1>1, <1>3 DEF Opening!DiskIsWhole
  <1>7. ASSUME NEW q \in Processes
        PROVE  FitsFile(pc[q])' /\ FitsWork(pc[q])'
    <2>1. CASE q = p
      <3>1. FitsFile(pc[q])'
        BY <1>2, <1>3, <2>1 DEF FitsFile, Opening!Schema
      <3>2. FitsWork(pc[q])'
        BY <1>2, <2>1 DEF FitsWork, Opening!Whole
      <3>. QED
        BY <3>1, <3>2
    <2>2. CASE q # p
      <3>1. pc'[q] = pc[q] /\ FitsFile(pc[q]) /\ FitsWork(pc[q])
        BY <1>1, <1>2, <2>2 DEF ProcessesFit
      <3>2. FitsFile(pc[q])'
        BY <1>3, <3>1 DEF FitsFile, Opening!Schema
      <3>3. work' = work \/ pc[q] \notin InTransaction
        BY <1>1, <2>2, NoProcessIsNone DEF Opening!LockIsInTransaction, InTransaction
      <3>4. FitsWork(pc[q])'
        BY <1>3, <3>1, <3>3 DEF FitsWork, InTransaction, Opening!Schema
      <3>. QED
        BY <3>2, <3>4
    <2>. QED
      BY <2>1, <2>2
  <1>. QED
    BY <1>4, <1>5, <1>6, <1>7 DEF OpeningInv, ProcessesFit

\* Giving up gives the lock back and leaves the file alone.
LEMMA GivesUpInv ==
  ASSUME OpeningInv, NEW p \in Processes, NEW why, Opening!GivesUp(p, why)
  PROVE  OpeningInv'
  <1>1. FitsFile("closed") /\ FitsWork("closed")'
    BY DEF FitsFile, FitsWork
  <1>2. work' \in Opening!Files
    BY DEF Opening!GivesUp, OpeningInv, StoreTypes
  <1>. QED
    BY FileKept, <1>1, <1>2 DEF Opening!GivesUp, OpeningPlaces, InTransaction

\* Reading the version promises no more than where to go on: "validate" only for the
\* current version, "migrate" only where there is an earlier one.
LEMMA ReadVersionInv ==
  ASSUME OpeningInv, NEW p \in Processes, Opening!ReadVersion(p)
  PROVE  OpeningInv'
  <1>1. CASE store.version > Opening!Latest
    BY <1>1, GivesUpInv DEF Opening!ReadVersion, Opening!ReportsDamage
  <1>2. CASE ~(store.version > Opening!Latest)
    <2>1. PICK to \in {"validate", "initialize", "migrate"} :
             /\ to = IF store.version = Opening!Latest THEN "validate"
                     ELSE IF store.version = 0 THEN "initialize" ELSE "migrate"
             /\ pc[p] = "closed" /\ pc' = [pc EXCEPT ![p] = to]
             /\ UNCHANGED <<kind, store, writer, work>>
      BY <1>2 DEF Opening!ReadVersion, Opening!Goes
    <2>2. to \in OpeningPlaces /\ to \notin InTransaction
      BY <2>1 DEF OpeningPlaces, InTransaction
    <2>3. store.version \in 0..3 /\ work \in Opening!Files
      BY DEF OpeningInv, StoreTypes, Opening!Files
    <2>4. FitsFile(to)
      BY <1>2, <2>1, <2>3, Versions DEF FitsFile
    <2>5. FitsWork(to)'
      BY <2>1 DEF FitsWork
    <2>6. writer # p
      BY <2>1 DEF OpeningInv, Opening!LockIsInTransaction
    <2>. QED
      BY FileKept, <2>1, <2>2, <2>3, <2>4, <2>5, <2>6
  <1>. QED
    BY <1>1, <1>2

\* The write lock is free when it is taken, so the transaction begins with the file
\* as it is.
LEMMA TakesWriteLockInv ==
  ASSUME OpeningInv, NEW p \in Processes, NEW from, NEW to \in {"create", "convert"},
         Opening!Goes(p, from, to), Opening!TakesWriteLock(p), to = "convert" => kind # "folders"
  PROVE  OpeningInv'
  <1>1. /\ writer = NoProcess /\ writer' = p /\ work' = store /\ UNCHANGED <<kind, store>>
        /\ pc' = [pc EXCEPT ![p] = to]
    BY DEF Opening!TakesWriteLock, Opening!Goes
  <1>2. to \in OpeningPlaces /\ to \in InTransaction /\ work' \in Opening!Files
    BY <1>1 DEF OpeningPlaces, InTransaction, OpeningInv, StoreTypes
  <1>3. FitsFile(to)
    BY DEF FitsFile
  <1>4. FitsWork(to)'
    BY <1>1 DEF FitsWork
  <1>. QED
    BY FileKept, <1>1, <1>2, <1>3, <1>4

LEMMA BeginImmediateInv ==
  ASSUME OpeningInv, NEW p \in Processes, Opening!BeginImmediate(p)
  PROVE  OpeningInv'
  BY TakesWriteLockInv DEF Opening!BeginImmediate

LEMMA UpgradeInv ==
  ASSUME OpeningInv, NEW p \in Processes, Opening!Upgrade(p)
  PROVE  OpeningInv'
  BY TakesWriteLockInv DEF Opening!Upgrade

LEMMA BeginDeferredInv ==
  ASSUME OpeningInv, NEW p \in Processes, Opening!BeginDeferred(p)
  PROVE  OpeningInv'
  <1>1. CASE store.schema # "none"
    BY <1>1, GivesUpInv DEF Opening!BeginDeferred, Opening!ReportsDamage
  <1>2. CASE store.schema = "none"
    <2>1. /\ pc[p] = "initialize" /\ pc' = [pc EXCEPT ![p] = "counted"]
          /\ UNCHANGED <<kind, store, writer, work>>
      BY <1>2 DEF Opening!BeginDeferred, Opening!Goes
    <2>2. FitsFile("counted") /\ FitsWork("counted")' /\ work \in Opening!Files
      BY DEF FitsFile, FitsWork, OpeningInv, StoreTypes
    <2>3. writer # p
      BY <2>1 DEF OpeningInv, Opening!LockIsInTransaction
    <2>. QED
      BY FileKept, <2>1, <2>2, <2>3 DEF OpeningPlaces, InTransaction
  <1>. QED
    BY <1>1, <1>2

\* The transactions' own steps: each keeps what it has made of the file so far.
LEMMA WritesInv ==
  ASSUME OpeningInv, NEW p \in Processes, NEW from \in InTransaction, NEW to \in InTransaction,
         Opening!Goes(p, from, to), UNCHANGED <<kind, store, writer>>, work' \in Opening!Files,
         FitsFile(to), FitsWork(to)'
  PROVE  OpeningInv'
  <1>1. pc[p] = from /\ pc' = [pc EXCEPT ![p] = to] /\ to \in OpeningPlaces
    BY DEF Opening!Goes, OpeningPlaces
  <1>2. writer = p
    BY <1>1 DEF OpeningInv, Opening!LockIsInTransaction, InTransaction
  <1>. QED
    BY FileKept, <1>1, <1>2

LEMMA CreateTableInv ==
  ASSUME OpeningInv, NEW p \in Processes, Opening!CreateTable(p)
  PROVE  OpeningInv'
  <1>1. CASE /\ work.version = 0 /\ work.schema = "none"
             /\ Opening!Goes(p, "create", "index")
             /\ work' = [work EXCEPT !.schema = "half"]
             /\ UNCHANGED <<kind, store, writer>>
    <2>1. work = store /\ work \in Opening!Files
      BY <1>1 DEF Opening!Goes, OpeningInv, ProcessesFit, FitsWork, StoreTypes
    <2>2. work' \in Opening!Files /\ work'.rows = store.rows
      BY <1>1, <2>1 DEF Opening!Files
    <2>3. Opening!Whole(store)'
      BY <1>1, <2>1 DEF Opening!Whole
    <2>4. FitsFile("index") /\ FitsWork("index")'
      BY <1>1, <2>2, <2>3 DEF FitsFile, FitsWork
    <2>. QED
      BY <1>1, <2>2, <2>4, WritesInv DEF InTransaction
  <1>2. CASE /\ kind = "vault" /\ work.version \in {1, 2}
             /\ work.schema = Opening!Schema(work.version)
             /\ Opening!Goes(p, "create", "commit")
             /\ UNCHANGED <<kind, store, writer, work>>
    <2>1. work = store /\ work \in Opening!Files
      BY <1>2 DEF Opening!Goes, OpeningInv, ProcessesFit, FitsWork, StoreTypes
    <2>2. Opening!Whole(store)'
      BY <1>2, <2>1 DEF Opening!Whole, Opening!Latest, Opening!Schema
    <2>3. FitsFile("commit") /\ FitsWork("commit")'
      BY <1>2, <2>1, <2>2 DEF FitsFile, FitsWork
    <2>. QED
      BY <1>2, <2>1, <2>3, WritesInv DEF InTransaction
  <1>3. CASE Opening!ReportsDamage(p, "create")
    BY <1>3, GivesUpInv DEF Opening!ReportsDamage
  <1>. QED
    BY <1>1, <1>2, <1>3 DEF Opening!CreateTable

LEMMA CreateIndexInv ==
  ASSUME OpeningInv, NEW p \in Processes, Opening!CreateIndex(p)
  PROVE  OpeningInv'
  <1>1. /\ Opening!Goes(p, "index", "commit") /\ UNCHANGED <<kind, store, writer>>
        /\ work' = [work EXCEPT !.schema = Opening!Schema(Opening!Latest), !.version = Opening!Latest]
    BY DEF Opening!CreateIndex
  <1>2. Opening!Whole(store) /\ work.rows = store.rows /\ work \in Opening!Files
    BY <1>1 DEF Opening!Goes, OpeningInv, ProcessesFit, FitsWork, StoreTypes
  <1>3. Opening!Latest \in 0..3 /\ Opening!Schema(Opening!Latest) \in {"v1", "v2"}
    BY DEF Opening!Latest, Opening!Schema
  <1>4. /\ work' \in Opening!Files /\ work'.rows = store.rows
        /\ work'.version = Opening!Latest /\ work'.schema = Opening!Schema(Opening!Latest)
    BY <1>1, <1>2, <1>3 DEF Opening!Files
  <1>5. Opening!Latest' = Opening!Latest /\ Opening!Whole(store)'
    BY <1>1, <1>2 DEF Opening!Latest, Opening!Whole, Opening!Schema
  <1>6. FitsWork("commit")'
    BY <1>1, <1>4, <1>5 DEF FitsWork, Opening!Schema
  <1>7. FitsFile("commit")
    BY DEF FitsFile
  <1>. QED
    BY <1>1, <1>4, <1>6, <1>7, WritesInv DEF InTransaction

LEMMA RenameTableInv ==
  ASSUME OpeningInv, NEW p \in Processes, Opening!RenameTable(p)
  PROVE  OpeningInv'
  <1>1. CASE work.schema # "v1"
    BY <1>1, GivesUpInv DEF Opening!RenameTable, Opening!ReportsDamage
  <1>2. CASE work.schema = "v1"
    <2>1. /\ Opening!Goes(p, "convert", "copy") /\ UNCHANGED <<kind, store, writer>>
          /\ work' = [work EXCEPT !.schema = "half", !.rows = {}, !.aside = work.rows]
      BY <1>2 DEF Opening!RenameTable
    <2>2. work = store /\ work \in Opening!Files /\ Opening!DiskIsWhole /\ kind # "folders"
      BY <2>1 DEF Opening!Goes, OpeningInv, ProcessesFit, FitsWork, FitsFile, StoreTypes
    <2>3. work' \in Opening!Files /\ work'.aside = store.rows
      BY <2>1, <2>2 DEF Opening!Files
    <2>4. Opening!Whole(store)'
      BY <1>2, <2>1, <2>2
         DEF Opening!DiskIsWhole, Opening!Whole, Opening!Latest, Opening!Schema
    <2>5. FitsFile("copy") /\ FitsWork("copy")'
      BY <2>1, <2>2, <2>3, <2>4 DEF FitsFile, FitsWork
    <2>. QED
      BY <2>1, <2>3, <2>5, WritesInv DEF InTransaction
  <1>. QED
    BY <1>1, <1>2

LEMMA CopyRowsInv ==
  ASSUME OpeningInv, NEW p \in Processes, Opening!CopyRows(p)
  PROVE  OpeningInv'
  <1>1. /\ Opening!Goes(p, "copy", "commit") /\ UNCHANGED <<kind, store, writer>>
        /\ work' = [version |-> 2, schema |-> "v2", rows |-> work.aside, aside |-> {}]
    BY DEF Opening!CopyRows
  <1>2. Opening!Whole(store) /\ work.aside = store.rows /\ work \in Opening!Files /\ kind # "folders"
    BY <1>1 DEF Opening!Goes, OpeningInv, ProcessesFit, FitsWork, FitsFile, StoreTypes
  <1>3. /\ work' \in Opening!Files /\ work'.rows = store.rows
        /\ work'.version = 2 /\ work'.schema = "v2"
    BY <1>1, <1>2 DEF Opening!Files
  <1>4. Opening!Latest' = 2 /\ Opening!Whole(store)' /\ Opening!Schema(2) = "v2"
    BY <1>1, <1>2 DEF Opening!Latest, Opening!Whole, Opening!Schema
  <1>5. FitsWork("commit")'
    BY <1>1, <1>3, <1>4 DEF FitsWork, Opening!Schema
  <1>6. FitsFile("commit")
    BY DEF FitsFile
  <1>. QED
    BY <1>1, <1>3, <1>5, <1>6, WritesInv DEF InTransaction

LEMMA ValidateInv ==
  ASSUME OpeningInv, NEW p \in Processes, Opening!Validate(p)
  PROVE  OpeningInv'
  <1>1. CASE /\ kind = "folders" \/ store.schema = Opening!Schema(Opening!Latest)
             /\ Opening!Goes(p, "validate", "open")
             /\ UNCHANGED <<kind, store, writer, work>>
    <2>1. /\ Opening!DiskIsWhole /\ work \in Opening!Files /\ writer # p
          /\ kind = "folders" => store.version = 1
      BY <1>1
         DEF Opening!Goes, OpeningInv, ProcessesFit, FitsFile, StoreTypes,
             Opening!LockIsInTransaction
    <2>2. /\ store.version = Opening!Latest
          /\ store.schema = Opening!Schema(Opening!Latest) \/ Opening!TakenOnTrust
      <3>1. CASE kind = "folders"
        BY <2>1, <3>1, Versions
           DEF Opening!DiskIsWhole, Opening!Whole, Opening!Schema, Opening!TakenOnTrust
      <3>2. CASE kind # "folders"
        BY <1>1, <2>1, <3>2, Versions DEF Opening!DiskIsWhole, Opening!Whole, Opening!Schema
      <3>. QED
        BY <3>1, <3>2
    <2>3. FitsFile("open") /\ FitsWork("open")'
      BY <2>2 DEF FitsFile, FitsWork
    <2>. QED
      BY FileKept, <1>1, <2>1, <2>3 DEF Opening!Goes, OpeningPlaces, InTransaction
  <1>2. CASE Opening!ReportsDamage(p, "validate")
    BY <1>2, GivesUpInv DEF Opening!ReportsDamage
  <1>. QED
    BY <1>1, <1>2 DEF Opening!Validate

\* The file changes when nobody but p is in a transaction, and p leaves it: whatever
\* the others know of the file still fits.
LEMMA FileReplaced ==
  ASSUME OpeningInv, NEW p \in Processes,
         UNCHANGED <<kind, work>>, writer \in {NoProcess, p}, writer' = NoProcess,
         pc' = [pc EXCEPT ![p] = IF writer = p THEN "validate" ELSE @],
         store' \in Opening!Files, Opening!DiskIsWhole',
         \/ store'.version = store.version /\ store'.schema = store.schema
         \/ store'.version = Opening!Latest /\ store'.schema = Opening!Schema(Opening!Latest),
         writer = p /\ kind = "folders" => store'.version = 1
  PROVE  OpeningInv'
  <1>1. StoreTypes /\ Opening!LockIsInTransaction /\ ProcessesFit
    BY DEF OpeningInv
  <1>2. /\ Opening!Latest' = Opening!Latest
        /\ Opening!Schema(Opening!Latest)' = Opening!Schema(Opening!Latest)
    BY DEF Opening!Latest, Opening!Schema
  <1>3. \A q \in Processes : pc'[q] = IF q = p /\ writer = p THEN "validate" ELSE pc[q]
    BY <1>1 DEF StoreTypes
  <1>4. StoreTypes'
    BY <1>1 DEF StoreTypes, OpeningPlaces
  <1>5. \A q \in Processes : pc'[q] \notin InTransaction
    BY <1>1, <1>3, NoProcessIsNone DEF Opening!LockIsInTransaction, InTransaction
  <1>6. Opening!LockIsInTransaction'
    BY <1>5, NoProcessIsNone DEF Opening!LockIsInTransaction, InTransaction
  <1>7. ASSUME NEW q \in Processes
        PROVE  FitsFile(pc[q])' /\ FitsWork(pc[q])'
    <2>1. FitsWork(pc[q])'
      BY <1>5 DEF FitsWork, InTransaction
    <2>2. CASE q = p /\ writer = p
      <3>1. FitsFile("validate")'
        BY <2>2 DEF FitsFile
      <3>. QED
        BY <1>3, <2>1, <2>2, <3>1
    <2>3. CASE ~(q = p /\ writer = p)
      <3>1. pc'[q] = pc[q] /\ FitsFile(pc[q])
        BY <1>1, <1>3, <2>3 DEF ProcessesFit
      <3>2. FitsFile(pc[q])'
        BY <1>2, <3>1, Versions DEF FitsFile, Opening!TakenOnTrust
      <3>. QED
        BY <2>1, <3>2
    <2>. QED
      BY <2>2, <2>3
  <1>. QED
    BY <1>4, <1>6, <1>7 DEF OpeningInv, ProcessesFit

\* A transaction that is committed puts a whole file on the disk, with all the rows
\* that were there before.
LEMMA CommitMakes ==
  ASSUME OpeningInv, NEW p \in Processes, Opening!Commit(p)
  PROVE  /\ writer = p
         /\ Opening!Whole(store)
         /\ store.rows \subseteq store'.rows
         /\ \/ kind # "folders" /\ store' = store
            \/ store'.version = Opening!Latest /\ store'.schema = Opening!Schema(Opening!Latest)
  <1>1. pc[p] = "commit" /\ store' = work
    BY DEF Opening!Commit, Opening!Goes
  <1>2. writer = p /\ FitsWork("commit")
    BY <1>1 DEF OpeningInv, Opening!LockIsInTransaction, ProcessesFit
  <1>. QED
    BY <1>1, <1>2 DEF FitsWork

LEMMA CommitInv ==
  ASSUME OpeningInv, NEW p \in Processes, Opening!Commit(p)
  PROVE  OpeningInv'
  <1>1. /\ UNCHANGED <<kind, work>> /\ writer' = NoProcess /\ store' = work
        /\ pc' = [pc EXCEPT ![p] = "validate"]
    BY DEF Opening!Commit, Opening!Goes
  <1>2. /\ writer = p /\ Opening!Whole(store)
        /\ \/ kind # "folders" /\ store' = store
           \/ store'.version = Opening!Latest /\ store'.schema = Opening!Schema(Opening!Latest)
    BY CommitMakes
  <1>3. Opening!Latest' = Opening!Latest /\ store' \in Opening!Files
    BY <1>1 DEF Opening!Latest, OpeningInv, StoreTypes
  <1>4. Opening!DiskIsWhole'
    BY <1>2, <1>3, Versions DEF Opening!DiskIsWhole, Opening!Whole, Opening!Schema
  <1>5. kind = "folders" => store'.version = 1
    BY <1>2, Versions
  <1>. QED
    BY <1>1, <1>2, <1>3, <1>4, <1>5, FileReplaced

LEMMA InsertKeeps ==
  ASSUME OpeningInv, NEW p \in Processes, Opening!Insert(p)
  PROVE  /\ writer = NoProcess
         /\ Opening!Whole(store) \/ Opening!TakenOnTrust
         /\ store' = [store EXCEPT !.rows = Records] /\ store' \in Opening!Files
         /\ store.rows \subseteq store'.rows
         /\ store'.version = store.version /\ store'.schema = store.schema
  <1>1. pc[p] = "open" /\ writer = NoProcess /\ store' = [store EXCEPT !.rows = Records]
    BY DEF Opening!Insert
  <1>2. store \in Opening!Files /\ FitsFile("open")
    BY <1>1 DEF OpeningInv, StoreTypes, ProcessesFit
  <1>3. Opening!Whole(store) \/ Opening!TakenOnTrust
    BY <1>2, Versions DEF FitsFile, Opening!Whole
  <1>. QED
    BY <1>1, <1>2, <1>3 DEF Opening!Files

LEMMA InsertInv ==
  ASSUME OpeningInv, NEW p \in Processes, Opening!Insert(p)
  PROVE  OpeningInv'
  <1>1. /\ writer = NoProcess
        /\ Opening!Whole(store) \/ Opening!TakenOnTrust
        /\ store' \in Opening!Files
        /\ store'.version = store.version /\ store'.schema = store.schema
    BY InsertKeeps
  <1>2. UNCHANGED <<kind, work>> /\ writer' = NoProcess /\ pc' = pc
    BY <1>1 DEF Opening!Insert
  <1>3. Opening!DiskIsWhole'
    BY <1>1, <1>2
       DEF Opening!DiskIsWhole, Opening!Whole, Opening!Latest, Opening!Schema,
           Opening!TakenOnTrust
  <1>4. pc' = [pc EXCEPT ![p] = IF writer = p THEN "validate" ELSE @]
    BY <1>1, <1>2, NoProcessIsNone DEF OpeningInv, StoreTypes
  <1>. QED
    BY <1>1, <1>2, <1>3, <1>4, NoProcessIsNone, FileReplaced

---------------------------------------------------------------------------
LEMMA OpeningNextInv ==
  ASSUME OpeningInv, [Opening!Next]_(Opening!vars)
  PROVE  OpeningInv'
  <1>1. ASSUME NEW p \in Processes, Opening!Opens(p)
        PROVE  OpeningInv'
    BY <1>1, ReadVersionInv, BeginImmediateInv, BeginDeferredInv, UpgradeInv, CreateTableInv,
       CreateIndexInv, RenameTableInv, CopyRowsInv, CommitInv, ValidateInv DEF Opening!Opens
  <1>2. ASSUME NEW p \in Processes, Opening!BusyTimeout(p) \/ Opening!StorageFails(p)
        PROVE  OpeningInv'
    BY <1>2, GivesUpInv DEF Opening!BusyTimeout, Opening!StorageFails
  <1>3. CASE UNCHANGED Opening!vars
    BY <1>3
       DEF Opening!vars, OpeningInv, StoreTypes, Opening!LockIsInTransaction,
           Opening!DiskIsWhole, ProcessesFit, FitsFile,
           FitsWork, Opening!Whole, Opening!Latest, Opening!Schema, Opening!TakenOnTrust
  <1>. QED
    BY <1>1, <1>2, <1>3, InsertInv DEF Opening!Next

\* A step changes the file only if it commits a transaction or inserts a row.
LEMMA WhoWrites ==
  ASSUME [Opening!Next]_(Opening!vars), store' # store
  PROVE  \E p \in Processes : Opening!Commit(p) \/ Opening!Insert(p)
  <1>1. ASSUME NEW p \in Processes, NEW why, Opening!GivesUp(p, why)
        PROVE  UNCHANGED store
    BY <1>1 DEF Opening!GivesUp
  <1>2. ASSUME NEW p \in Processes, NEW at, Opening!ReportsDamage(p, at)
        PROVE  UNCHANGED store
    BY <1>1, <1>2 DEF Opening!ReportsDamage
  <1>3. ASSUME NEW p \in Processes, Opening!Opens(p), ~Opening!Commit(p)
        PROVE  UNCHANGED store
    <2>1. CASE Opening!ReadVersion(p)
      BY <1>2, <2>1 DEF Opening!ReadVersion
    <2>2. CASE Opening!BeginImmediate(p) \/ Opening!Upgrade(p)
      BY <2>2 DEF Opening!BeginImmediate, Opening!Upgrade, Opening!TakesWriteLock
    <2>3. CASE Opening!BeginDeferred(p)
      BY <1>2, <2>3 DEF Opening!BeginDeferred
    <2>4. CASE Opening!CreateTable(p)
      BY <1>2, <2>4 DEF Opening!CreateTable
    <2>5. CASE Opening!CreateIndex(p) \/ Opening!CopyRows(p)
      BY <2>5 DEF Opening!CreateIndex, Opening!CopyRows
    <2>6. CASE Opening!RenameTable(p)
      BY <1>2, <2>6 DEF Opening!RenameTable
    <2>7. CASE Opening!Validate(p)
      BY <1>2, <2>7 DEF Opening!Validate
    <2>. QED
      BY <1>3, <2>1, <2>2, <2>3, <2>4, <2>5, <2>6, <2>7 DEF Opening!Opens
  <1>4. ASSUME NEW p \in Processes, Opening!BusyTimeout(p) \/ Opening!StorageFails(p)
        PROVE  UNCHANGED store
    BY <1>1, <1>4 DEF Opening!BusyTimeout, Opening!StorageFails
  <1>. QED
    BY <1>3, <1>4 DEF Opening!Next, Opening!vars
\* Of what the invariant leaves out, every step makes something of its kind.
OtherTypes ==
    /\ kind \in Kinds /\ writer \in Processes \cup {NoProcess}
    /\ readers \subseteq Processes
    /\ outcome \in [Processes -> {"none", "ok", "DataDamaged", "StorageUnavailable"}]
    /\ faults \in 0 .. MaxFaults

LEMMA OtherTypesKept ==
  ASSUME OtherTypes, [Opening!Next]_(Opening!vars)
  PROVE  OtherTypes'
  <1>1. MaxFaults \in Nat
    BY FilesAssumption DEF Opening!OpeningAssumption
  <1>2. ASSUME NEW p \in Processes, faults' \in 0 .. MaxFaults,
               NEW why \in {"none", "DataDamaged", "StorageUnavailable"}, Opening!GivesUp(p, why)
        PROVE  OtherTypes'
    BY <1>2 DEF OtherTypes, Opening!GivesUp
  <1>3. ASSUME NEW p \in Processes, NEW at, Opening!ReportsDamage(p, at)
        PROVE  OtherTypes'
    BY <1>2, <1>3 DEF Opening!ReportsDamage, OtherTypes
  <1>4. ASSUME NEW p \in Processes, Opening!Opens(p)
        PROVE  OtherTypes'
    <2>1. CASE Opening!ReadVersion(p)
      BY <1>3, <2>1 DEF Opening!ReadVersion, OtherTypes
    <2>2. CASE Opening!BeginImmediate(p) \/ Opening!Upgrade(p)
      BY <2>2 DEF Opening!BeginImmediate, Opening!Upgrade, Opening!TakesWriteLock, OtherTypes
    <2>3. CASE Opening!BeginDeferred(p)
      BY <1>3, <2>3 DEF Opening!BeginDeferred, OtherTypes
    <2>4. CASE Opening!CreateTable(p)
      BY <1>3, <2>4 DEF Opening!CreateTable, OtherTypes
    <2>5. CASE Opening!CreateIndex(p) \/ Opening!CopyRows(p) \/ Opening!Commit(p)
      BY <2>5 DEF Opening!CreateIndex, Opening!CopyRows, Opening!Commit, OtherTypes
    <2>6. CASE Opening!RenameTable(p)
      BY <1>3, <2>6 DEF Opening!RenameTable, OtherTypes
    <2>7. CASE Opening!Validate(p)
      BY <1>3, <2>7 DEF Opening!Validate, OtherTypes
    <2>. QED
      BY <1>4, <2>1, <2>2, <2>3, <2>4, <2>5, <2>6, <2>7 DEF Opening!Opens
  <1>5. ASSUME NEW p \in Processes, Opening!Insert(p)
        PROVE  OtherTypes'
    BY <1>5 DEF Opening!Insert, OtherTypes
  <1>6. ASSUME NEW p \in Processes, Opening!BusyTimeout(p) \/ Opening!StorageFails(p)
        PROVE  OtherTypes'
    BY <1>1, <1>2, <1>6 DEF Opening!BusyTimeout, Opening!StorageFails, OtherTypes
  <1>7. CASE UNCHANGED Opening!vars
    BY <1>7 DEF Opening!vars, OtherTypes
  <1>. QED
    BY <1>4, <1>5, <1>6, <1>7 DEF Opening!Next

---------------------------------------------------------------------------
(* Together.  Only the part that a behaviour follows makes steps.          *)

FilesInv ==
    /\ part = "keys" => KeyInv
    /\ part = "setup" => Waits
    /\ DisplayInv
    /\ OpeningInv /\ OtherTypes

LEMMA FilesInitInv ==
  ASSUME Init
  PROVE  FilesInv
  <1>1. part = "keys" => KeyInv
    BY KeyInitInv DEF Init
  <1>2. part = "setup" => Waits
    BY DEF Init, Two!Init, Waits
  <1>3. DisplayInv /\ OpeningInv
    BY DisplayInitInv, OpeningInitInv DEF Init
  <1>4. OtherTypes
    <2>1. MaxFaults \in Nat
      BY FilesAssumption DEF Opening!OpeningAssumption
    <2>. QED
      BY <2>1 DEF Init, Opening!Init, OtherTypes
  <1>. QED
    BY <1>1, <1>2, <1>3, <1>4 DEF FilesInv

\* A step of one part is no step of the others.
LEMMA PartSteps ==
  ASSUME [Next]_allVars
  PROVE  /\ UNCHANGED part
         /\ part = "keys" => [One!Next]_(One!vars)
         /\ part = "setup" => [Two!Next]_(Two!vars)
         /\ [Display!Next]_(Display!vars)
         /\ [Opening!Next]_(Opening!vars)
  <1>1. /\ UNCHANGED keyVars => UNCHANGED One!vars /\ UNCHANGED Two!vars
        /\ UNCHANGED displayVars => UNCHANGED Display!vars
        /\ UNCHANGED openingVars => UNCHANGED Opening!vars
    BY DEF keyVars, displayVars, openingVars, One!vars, One!instances, One!generated,
       Two!vars, Two!instances, Two!generated, Display!vars, Opening!vars
  <1>. QED
    BY <1>1 DEF Next, KeyStep, SetupStep, DisplayStep, OpeningStep, allVars

\* The invariant of every part, for any numbers of passwords, names, rows and instances.
THEOREM FilesInvariant == Spec => []FilesInv
  <1>1. ASSUME FilesInv, [Next]_allVars
        PROVE  FilesInv'
    BY <1>1, PartSteps, KeyNextInv, SetupNextInv, DisplayNextInv, OpeningNextInv,
       OtherTypesKept
       DEF FilesInv
  <1>. QED
    BY <1>1, FilesInitInv, PTL DEF Spec

\* The profile keeps one vault key in all its wrappers, which is the one of the session
\* and of the stores, and stays within what the program reads and can change
\* (security/crypto.rs, security/auth.rs).
THEOREM OneKeyForAll == Spec => []ProfileStaysSound
  <1>1. FilesInv => ProfileStaysSound
    BY KeyIsSound DEF FilesInv, ProfileStaysSound
  <1>. QED
    BY <1>1, FilesInvariant, PTL

\* Sessions open by their own wrappers, a replaced recovery key stays invalid, nothing typed
\* makes a profile damaged, and setting up overwrites no profile (security/auth.rs,
\* security/storage.rs).
THEOREM ProfileKeepsItsGuards == Spec => ProfileIsGuarded
  <1>1. ASSUME FilesInv, [Next]_allVars
        PROVE  [/\ part = "keys" => One!OpensItsOwnSlot /\ One!StaysReplaced /\ One!StaysSound
                /\ part = "setup" => Two!OverwritesNothing]_allVars
    <2>1. CASE UNCHANGED allVars
      BY <2>1
    <2>2. CASE Next
      <3>1. part = "keys" => One!OpensItsOwnSlot /\ One!StaysReplaced /\ One!StaysSound
        BY <1>1, <2>2, KeyIsGuarded
           DEF Next, KeyStep, SetupStep, DisplayStep, OpeningStep, FilesInv
      <3>2. part = "setup" => Two!OverwritesNothing
        BY <1>1, <2>2, SetupOverwritesNothing
           DEF Next, KeyStep, SetupStep, DisplayStep, OpeningStep, FilesInv
      <3>. QED
        BY <3>1, <3>2
    <2>. QED
      BY <1>1, <2>1, <2>2
  <1>. QED
    BY <1>1, FilesInvariant, PTL DEF Spec, ProfileIsGuarded

\* A name goes with its own picture, a picture in use is not touched by a save, and none is
\* left behind (profile.rs).
THEOREM PicturesStaySound == Spec => PicturesAreSound
  <1>1. ASSUME FilesInv
        PROVE  Display!TypeOK /\ Display!NameAndPictureMatch /\ Display!NothingIsLeftBehind
    BY <1>1, DisplayIsSound DEF FilesInv
  <1>2. ASSUME FilesInv, [Next]_allVars
        PROVE  [metadata' = metadata /\ metadata \in Display!Metadata =>
                   \/ (Display!LoadAvatar(metadata.avatar))' = Display!LoadAvatar(metadata.avatar)
                   \/ \E f \in Display!Files : Display!SpoilAvatar(f)]_(Display!vars)
    BY <1>2, PartSteps, PictureStays DEF FilesInv
  <1>. QED
    BY <1>1, <1>2, FilesInvariant, PTL DEF Spec, PicturesAreSound, Display!SavedPictureStays

\* A store on disk is whole or foreign at every moment, and only a transaction holds the
\* write lock; whoever has it open works on the current schema, or, in the one case that
\* the code takes on trust, on a folders.db of that version whose tables nobody looked at
\* (open in vault/service.rs, notes/service.rs and folders.rs).
THEOREM StoresStayWhole == Spec => []StoresAreWhole
  <1>1. ASSUME FilesInv
        PROVE  StoresAreWhole
    <2>1. Opening!TypeOK
      BY <1>1 DEF FilesInv, OpeningInv, StoreTypes, OtherTypes, Opening!TypeOK, OpeningPlaces,
         InTransaction
    <2>2. Opening!OpenMeansCurrent
      BY <1>1 DEF FilesInv, OpeningInv, ProcessesFit, FitsFile, Opening!OpenMeansCurrent
    <2>. QED
      BY <1>1, <2>1, <2>2 DEF FilesInv, OpeningInv, Opening!FileIsSound, StoresAreWhole
  <1>. QED
    BY <1>1, FilesInvariant, PTL

\* No initialization, migration or insertion loses a row, whatever other instances do
\* between reading the version and the transaction, and none touches a foreign file, but
\* for the rows written to a folders.db that was taken on trust.
THEOREM NothingIsLost == Spec => StoresKeepTheirRows
  <1>1. ASSUME FilesInv, [Next]_allVars
        PROVE  /\ store.rows \subseteq store'.rows
               /\ ~Opening!Whole(store) =>
                     \/ UNCHANGED store
                     \/ /\ Opening!TakenOnTrust
                        /\ store' = [store EXCEPT !.rows = store'.rows]
    <2>1. CASE store' = store
      BY <2>1
    <2>2. CASE store' # store
      <3>1. PICK p \in Processes : Opening!Commit(p) \/ Opening!Insert(p)
        BY <1>1, <2>2, PartSteps, WhoWrites
      <3>2. CASE Opening!Commit(p)
        BY <1>1, <3>2, CommitMakes DEF FilesInv
      <3>3. CASE Opening!Insert(p)
        <4>1. /\ store.rows \subseteq store'.rows
              /\ Opening!Whole(store) \/ Opening!TakenOnTrust
              /\ store' = [store EXCEPT !.rows = Records] /\ store \in Opening!Files
          BY <1>1, <3>3, InsertKeeps DEF FilesInv, OpeningInv, StoreTypes
        <4>2. store'.rows = Records
          BY <4>1 DEF Opening!Files
        <4>. QED
          BY <4>1, <4>2
      <3>. QED
        BY <3>1, <3>2, <3>3
    <2>. QED
      BY <2>1, <2>2
  <1>2. ASSUME FilesInv, [Next]_allVars
        PROVE  /\ [store.rows \subseteq store'.rows]_(Opening!vars)
               /\ [~Opening!Whole(store) =>
                     \/ UNCHANGED store
                     \/ /\ Opening!TakenOnTrust
                        /\ store' = [store EXCEPT !.rows = store'.rows]]_(Opening!vars)
    BY <1>1, <1>2
  <1>. QED
    BY <1>2, FilesInvariant, PTL DEF Spec, StoresKeepTheirRows, Opening!DataSurvives,
       Opening!RowsSurvive, Opening!ForeignFileUntouched
=============================================================================
