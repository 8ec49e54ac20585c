----------------------------- MODULE AuthProofs -----------------------------
(***************************************************************************)
(* Proofs about Auth for every set of passwords, every verification time   *)
(* and every bound: the profile on disk, the profile in memory, the        *)
(* encrypted files and the recovery key the user holds stay together, and  *)
(* the PIN budget and the guess delays hold.                               *)
(*                                                                         *)
(* The invariant has two halves that do not meet: what the files and the   *)
(* session contain (StorageInv), and what the counters say (CounterInv).   *)
(***************************************************************************)
EXTENDS Auth, TLAPS

(* The files and the session.                                              *)
StorageTypes ==
    /\ disk \in Profiles \cup { NoProfile }
    /\ data \in [Stores -> 0 .. MaxVaultKeys]
    /\ state \in { "Stopped", "SetupRequired", "Locked", "Unlocked", "DataError" }
    /\ profile \in Profiles \cup { NoProfile }
    /\ vault_key \in 0 .. MaxVaultKeys
    /\ vaultKeys \in 0 .. MaxVaultKeys
    /\ recoveryKeys \in 0 .. MaxRecoveryKeys
    /\ shown \in 0 .. MaxRecoveryKeys

(* The three properties hold together or not at all: the next key is       *)
(* written from memory, and what it may replace is known from the data and *)
(* from the key the user was shown.                                        *)
StorageInv ==
    /\ StorageTypes
    /\ state \in { "Locked", "Unlocked" } => profile # NoProfile
    /\ DataMatchesProfile
    /\ MemoryMatchesDisk
    /\ ShownKeyOpensProfile

(* Wrong guesses of the master password or recovery key: the counter that  *)
(* sets the delay has missed none of them and has the age of the last.     *)
AttemptInv ==
    /\ failed_attempts \in 0 .. MaxFailures
    /\ sinceFailed \in 0 .. LongestDelay
    /\ wrong = failed_attempts
    /\ sinceWrong = sinceFailed

(* Wrong PINs: the counter has missed none of this locked session (it may  *)
(* keep some of an earlier one that a recovery ended), and a session that  *)
(* is not locked starts its next locked session with none against it.      *)
PinInv ==
    /\ pin_failed_attempts \in 0 .. 5
    /\ sincePinFailed \in 0 .. 2
    /\ pin_disabled = (pin_failed_attempts = 5)
    /\ pinGuesses \in Nat
    /\ pinGuesses <= pin_failed_attempts
    /\ state \in { "Stopped", "SetupRequired", "Unlocked" } => pinGuesses = 0

CounterInv == AttemptInv /\ PinInv

IInv == StorageInv /\ CounterInv

(* What a profile contains, and what is left of it in a replacement.       *)
LEMMA ProfileType ==
    /\ NoProfile \notin Profiles
    /\ \A p \in Profiles : /\ p.key \in VaultKeys
                           /\ p.recovery \in 0 .. MaxRecoveryKeys
                           /\ p.master \in Passwords
    /\ \A p \in Profiles, n \in 0 .. MaxRecoveryKeys :
          /\ [p EXCEPT !.recovery = n] \in Profiles
          /\ [p EXCEPT !.recovery = n].key = p.key
    /\ \A p \in Profiles, m \in Passwords :
          /\ [p EXCEPT !.master = m] \in Profiles
          /\ [p EXCEPT !.master = m].key = p.key
          /\ [p EXCEPT !.master = m].recovery = p.recovery
    /\ \A p \in Profiles, b \in BOOLEAN :
          /\ [p EXCEPT !.pin = b] \in Profiles
          /\ [p EXCEPT !.pin = b].key = p.key
          /\ [p EXCEPT !.pin = b].recovery = p.recovery
    /\ \A m \in Passwords, n \in 0 .. MaxRecoveryKeys, b \in BOOLEAN, k \in VaultKeys :
          /\ [master |-> m, recovery |-> n, pin |-> b, key |-> k] \in Profiles
          /\ [master |-> m, recovery |-> n, pin |-> b, key |-> k].key = k
          /\ [master |-> m, recovery |-> n, pin |-> b, key |-> k].recovery = n
  BY AuthAssumption DEF AuthAssumption, Profiles

(* A first start and a start over a legacy profile satisfy the invariant.  *)
LEMMA InitIInv == Init => IInv
  <1> SUFFICES ASSUME Init PROVE IInv
    OBVIOUS
  <1>1. disk \in Profiles \cup { NoProfile } /\ vaultKeys \in 0 .. MaxVaultKeys
    <2>1. /\ { 0 } \subseteq 0 .. MaxRecoveryKeys
          /\ { FALSE } \subseteq BOOLEAN
          /\ { 1 } \subseteq VaultKeys
          /\ { 0, 1 } \subseteq 0 .. MaxVaultKeys
      BY AuthAssumption DEF AuthAssumption, VaultKeys
    <2>2. [master : Passwords, recovery : { 0 }, pin : { FALSE }, key : { 1 }]
             \subseteq Profiles
      BY <2>1 DEF Profiles
    <2> QED
      BY <2>1, <2>2 DEF Init
  <1>2. StorageInv
    BY <1>1, AuthAssumption
    DEF Init, StorageInv, StorageTypes, AuthAssumption, DataMatchesProfile, MemoryMatchesDisk,
        ShownKeyOpensProfile
  <1>3. pin_disabled = (pin_failed_attempts = 5)
    <2>1. pin_disabled = FALSE /\ pin_failed_attempts # 5
      BY DEF Init
    <2> QED
      BY <2>1, Zenon
  <1>4. CounterInv
    BY <1>3, AuthAssumption
    DEF Init, CounterInv, AttemptInv, PinInv, AuthAssumption, LongestDelay
  <1> QED
    BY <1>2, <1>4 DEF IInv

(* However the write of a replacement ends, what the files and the session *)
(* contain stays together.                                                 *)
LEMMA WriteKeepsStorage ==
    ASSUME StorageInv,
           state \in { "Locked", "Unlocked" },
           NEW replacement \in Profiles,
           replacement.key = profile.key,
           vaultKeys' \in 0 .. MaxVaultKeys,
           recoveryKeys' \in 0 .. MaxRecoveryKeys,
           \/ /\ Replaced(replacement)
              /\ state' = "Unlocked"
              /\ vault_key' = profile.key
              /\ shown' \in { 0, replacement.recovery }
           \/ ReplaceRefused(replacement)
           \/ ReplacedLast(replacement)
    PROVE  StorageInv'
  <1>1. /\ replacement # NoProfile
        /\ replacement.key \in VaultKeys
        /\ replacement.recovery \in 0 .. MaxRecoveryKeys
    BY ProfileType
  <1>2. /\ disk # NoProfile
        /\ profile = disk
        /\ disk.key = replacement.key
    BY DEF StorageInv, MemoryMatchesDisk
  <1>3. CASE Replaced(replacement) /\ state' = "Unlocked" /\ vault_key' = profile.key
             /\ shown' \in { 0, replacement.recovery }
    <2>1. disk' = replacement /\ profile' = replacement /\ data' = data
      BY <1>3 DEF Replaced
    <2>2. StorageTypes'
      BY <1>1, <1>2, <1>3, <2>1, AuthAssumption
      DEF StorageInv, StorageTypes, VaultKeys, AuthAssumption
    <2>3. DataMatchesProfile'
      BY <1>1, <1>2, <2>1 DEF StorageInv, DataMatchesProfile
    <2>4. MemoryMatchesDisk' /\ ShownKeyOpensProfile'
      BY <1>1, <1>2, <1>3, <2>1 DEF MemoryMatchesDisk, ShownKeyOpensProfile
    <2> QED
      BY <1>1, <2>1, <2>2, <2>3, <2>4 DEF StorageInv
  <1>4. CASE ReplaceRefused(replacement)
    BY <1>4 DEF ReplaceRefused, memory, StorageInv, StorageTypes, DataMatchesProfile,
                MemoryMatchesDisk, ShownKeyOpensProfile
  <1>5. CASE ReplacedLast(replacement)
    <2>1. /\ disk' = replacement
          /\ shown' = IF replacement.recovery = disk.recovery THEN shown ELSE 0
          /\ data' = data
          /\ state' = "Stopped" /\ profile' = NoProfile /\ vault_key' = 0
      BY <1>5 DEF ReplacedLast, StopsRunning, Becomes
    <2>2. StorageTypes'
      BY <2>1, AuthAssumption DEF StorageInv, StorageTypes, AuthAssumption
    <2>3. DataMatchesProfile'
      BY <1>1, <1>2, <2>1 DEF StorageInv, DataMatchesProfile
    <2>4. MemoryMatchesDisk'
      BY <2>1 DEF MemoryMatchesDisk
    <2>5. ShownKeyOpensProfile'
      BY <1>1, <2>1 DEF StorageInv, ShownKeyOpensProfile
    <2> QED
      BY <2>1, <2>2, <2>3, <2>4, <2>5 DEF StorageInv
  <1> QED
    BY <1>3, <1>4, <1>5

(* A change of the profile in an unlocked session.                         *)
LEMMA ChangeKeepsStorage ==
    ASSUME StorageInv,
           state = "Unlocked",
           NEW replacement \in Profiles, NEW shownAfter,
           replacement.key = profile.key,
           vaultKeys' \in 0 .. MaxVaultKeys,
           recoveryKeys' \in 0 .. MaxRecoveryKeys,
           shownAfter \in { 0, replacement.recovery },
           ChangeUnlocked(replacement, shownAfter)
    PROVE  StorageInv'
  <1>1. vault_key = profile.key
    BY DEF StorageInv, MemoryMatchesDisk
  <1> QED
    BY <1>1, WriteKeepsStorage DEF ChangeUnlocked

(* The files and the session, action by action.                            *)
LEMMA NextKeepsStorage == StorageInv /\ [Next]_vars => StorageInv'
  <1> SUFFICES ASSUME StorageInv, [Next]_vars PROVE StorageInv'
    OBVIOUS
  <1>1. ASSUME UNCHANGED << disk, data, generated, shown >>,
               \/ UNCHANGED memory
               \/ Becomes("Stopped", NoProfile, 0)
               \/ Becomes("DataError", NoProfile, 0)
               \/ Becomes("SetupRequired", NoProfile, 0)
               \/ disk # NoProfile /\ Becomes("Locked", disk, 0)
               \/ state = "Unlocked" /\ Becomes("Locked", profile, 0)
               \/ state = "Locked" /\ Becomes("Unlocked", profile, profile.key)
        PROVE  StorageInv'
    <2>1. /\ disk' = disk /\ data' = data /\ shown' = shown
          /\ vaultKeys' = vaultKeys /\ recoveryKeys' = recoveryKeys
      BY <1>1 DEF generated
    <2>2. disk # NoProfile => disk.key \in 0 .. MaxVaultKeys
      BY ProfileType, AuthAssumption DEF StorageInv, StorageTypes, VaultKeys, AuthAssumption
    <2>3. \/ /\ state' = state /\ profile' = profile /\ vault_key' = vault_key
          \/ /\ state' \in { "Stopped", "DataError", "SetupRequired" }
             /\ profile' = NoProfile /\ vault_key' = 0
          \/ /\ disk # NoProfile
             /\ state' = "Locked" /\ profile' = disk /\ vault_key' = 0
          \/ /\ disk # NoProfile
             /\ state' = "Unlocked" /\ profile' = disk /\ vault_key' = disk.key
      BY <1>1 DEF memory, Becomes, StorageInv, MemoryMatchesDisk
    <2>4. StorageTypes'
      BY <2>1, <2>2, <2>3, AuthAssumption DEF StorageInv, StorageTypes, AuthAssumption
    <2>5. DataMatchesProfile' /\ ShownKeyOpensProfile'
      BY <2>1 DEF StorageInv, DataMatchesProfile, ShownKeyOpensProfile
    <2>6. MemoryMatchesDisk' /\ (state' \in { "Locked", "Unlocked" } => profile' # NoProfile)
      BY <2>1, <2>3 DEF StorageInv, MemoryMatchesDisk
    <2> QED
      BY <2>4, <2>5, <2>6 DEF StorageInv
  <1>2. ASSUME NEW password \in Passwords, create_master_password(password)
        PROVE  StorageInv'
    <2> DEFINE created == [master |-> password, recovery |-> recoveryKeys + 1,
                           pin |-> FALSE, key |-> vaultKeys + 1]
    <2>1. /\ vaultKeys + 1 \in VaultKeys
          /\ recoveryKeys + 1 \in 0 .. MaxRecoveryKeys
      BY <1>2, AuthAssumption
      DEF create_master_password, StorageInv, StorageTypes, VaultKeys, AuthAssumption
    <2>2. /\ created \in Profiles
          /\ created.key = vaultKeys + 1
          /\ created.recovery = recoveryKeys + 1
      BY <2>1, ProfileType
    <2>3. /\ vaultKeys' = vaultKeys + 1
          /\ recoveryKeys' = recoveryKeys + 1
          /\ UNCHANGED data
          /\ \/ /\ disk = NoProfile
                /\ disk' = created
                /\ Becomes("Unlocked", created, created.key)
                /\ shown' = created.recovery
             \/ /\ Becomes("DataError", NoProfile, 0)
                /\ UNCHANGED << disk, shown >>
             \/ /\ disk = NoProfile
                /\ disk' = created
                /\ Becomes("Stopped", NoProfile, 0)
                /\ UNCHANGED shown
      BY <1>2 DEF create_master_password, StopsRunning
    <2>4. disk = NoProfile => \A store \in Stores : data[store] = 0
      BY DEF StorageInv, DataMatchesProfile
    <2>5. created # NoProfile
      BY <2>2, ProfileType
    <2> HIDE DEF created
    <2>6. \/ /\ disk = NoProfile /\ disk' = created
             /\ state' = "Unlocked" /\ profile' = created /\ vault_key' = created.key
             /\ shown' = created.recovery
          \/ /\ disk' = disk /\ shown' = shown
             /\ state' = "DataError" /\ profile' = NoProfile /\ vault_key' = 0
          \/ /\ disk = NoProfile /\ disk' = created
             /\ state' = "Stopped" /\ profile' = NoProfile /\ vault_key' = 0
             /\ shown' = shown
      BY <2>3 DEF Becomes
    <2>7. StorageTypes'
      BY <2>1, <2>2, <2>3, <2>6, AuthAssumption
      DEF StorageInv, StorageTypes, VaultKeys, AuthAssumption
    <2>8. DataMatchesProfile'
      BY <2>3, <2>4, <2>6 DEF StorageInv, DataMatchesProfile
    <2>9. MemoryMatchesDisk' /\ (state' \in { "Locked", "Unlocked" } => profile' # NoProfile)
      BY <2>5, <2>6 DEF MemoryMatchesDisk
    <2>10. ShownKeyOpensProfile'
      BY <2>5, <2>6 DEF StorageInv, ShownKeyOpensProfile
    <2> QED
      BY <2>7, <2>8, <2>9, <2>10 DEF StorageInv
  <1>3. ASSUME NEW password \in Passwords, recover_master_password(password)
        PROVE  StorageInv'
    <2> DEFINE replacement == [master |-> password, recovery |-> recoveryKeys + 1,
                               pin |-> FALSE, key |-> profile.key]
    <2>1. /\ state = "Locked"
          /\ vaultKeys' \in 0 .. MaxVaultKeys
          /\ recoveryKeys' \in 0 .. MaxRecoveryKeys
          /\ recoveryKeys + 1 \in 0 .. MaxRecoveryKeys
      BY <1>3, AuthAssumption
      DEF recover_master_password, StorageInv, StorageTypes, AuthAssumption
    <2>2. /\ replacement \in Profiles
          /\ replacement.key = profile.key
          /\ replacement.recovery = recoveryKeys + 1
      BY <2>1, ProfileType DEF StorageInv, StorageTypes
    <2>3. \/ /\ Replaced(replacement)
             /\ state' = "Unlocked"
             /\ vault_key' = profile.key
             /\ shown' = replacement.recovery
          \/ ReplaceRefused(replacement)
          \/ ReplacedLast(replacement)
      BY <1>3 DEF recover_master_password
    <2> HIDE DEF replacement
    <2> QED
      BY <2>1, <2>2, <2>3, WriteKeepsStorage
  <1>4. CASE regenerate_recovery_key
    <2>1. /\ state = "Unlocked"
          /\ vaultKeys' \in 0 .. MaxVaultKeys
          /\ recoveryKeys' \in 0 .. MaxRecoveryKeys
          /\ recoveryKeys + 1 \in 0 .. MaxRecoveryKeys
          /\ profile \in Profiles
      BY <1>4, AuthAssumption
      DEF regenerate_recovery_key, StorageInv, StorageTypes, AuthAssumption
    <2>2. /\ [profile EXCEPT !.recovery = recoveryKeys + 1] \in Profiles
          /\ [profile EXCEPT !.recovery = recoveryKeys + 1].key = profile.key
      BY <2>1, ProfileType
    <2>3. [profile EXCEPT !.recovery = recoveryKeys + 1].recovery = recoveryKeys + 1
      BY <2>1 DEF Profiles
    <2>4. ChangeUnlocked([profile EXCEPT !.recovery = recoveryKeys + 1],
                         recoveryKeys + 1)
      BY <1>4 DEF regenerate_recovery_key
    <2> QED
      BY <2>1, <2>2, <2>3, <2>4, ChangeKeepsStorage
  <1>5. ASSUME NEW password \in Passwords, change_master_password(password)
        PROVE  StorageInv'
    <2> DEFINE replacement == [profile EXCEPT !.master = password]
    <2>1. /\ state = "Unlocked"
          /\ vaultKeys' \in 0 .. MaxVaultKeys
          /\ recoveryKeys' \in 0 .. MaxRecoveryKeys
          /\ profile \in Profiles
          /\ ChangeUnlocked(replacement, shown)
      BY <1>5 DEF change_master_password, generated, StorageInv, StorageTypes
    <2>2. /\ replacement \in Profiles
          /\ replacement.key = profile.key
          /\ replacement.recovery = profile.recovery
      BY <2>1, ProfileType
    <2>3. shown \in { 0, replacement.recovery }
      BY <2>1, <2>2 DEF StorageInv, MemoryMatchesDisk, ShownKeyOpensProfile
    <2> HIDE DEF replacement
    <2> QED
      BY <2>1, <2>2, <2>3, ChangeKeepsStorage
  <1>6. ASSUME NEW configured \in BOOLEAN, replace_pin(configured)
        PROVE  StorageInv'
    <2> DEFINE replacement == [profile EXCEPT !.pin = configured]
    <2>1. /\ state = "Unlocked"
          /\ vaultKeys' \in 0 .. MaxVaultKeys
          /\ recoveryKeys' \in 0 .. MaxRecoveryKeys
          /\ profile \in Profiles
      BY <1>6 DEF replace_pin, generated, StorageInv, StorageTypes
    <2>2. /\ replacement \in Profiles
          /\ replacement.key = profile.key
          /\ replacement.recovery = profile.recovery
      BY <2>1, ProfileType
    <2>3. shown \in { 0, replacement.recovery } /\ vault_key = profile.key
      BY <2>1, <2>2 DEF StorageInv, MemoryMatchesDisk, ShownKeyOpensProfile
    <2>4. \/ Replaced(replacement) /\ UNCHANGED << state, vault_key, shown >>
          \/ ReplaceRefused(replacement)
          \/ ReplacedLast(replacement)
      BY <1>6 DEF replace_pin
    <2> HIDE DEF replacement
    <2> QED
      BY <2>1, <2>2, <2>3, <2>4, WriteKeepsStorage
  <1>7. ASSUME NEW store \in Stores, WriteStore(store)
        PROVE  StorageInv'
    <2>1. /\ state = "Unlocked"
          /\ data' = [data EXCEPT ![store] = vault_key]
          /\ UNCHANGED << disk, state, profile, vault_key, vaultKeys, recoveryKeys, shown >>
      BY <1>7 DEF WriteStore, memory, generated
    <2>2. vault_key \in 0 .. MaxVaultKeys /\ disk # NoProfile /\ vault_key = disk.key
      BY <2>1 DEF StorageInv, StorageTypes, MemoryMatchesDisk
    <2>3. StorageTypes'
      BY <2>1, <2>2 DEF StorageInv, StorageTypes
    <2>4. \A other \in Stores : data'[other] # 0 => disk.key = data'[other]
      BY <2>1, <2>2 DEF StorageInv, StorageTypes, DataMatchesProfile
    <2> QED
      BY <2>1, <2>2, <2>3, <2>4
      DEF StorageInv, DataMatchesProfile, MemoryMatchesDisk, ShownKeyOpensProfile
  <1>8. CASE finish_reset
    <2>1. PICK removed \in Nat :
             /\ RemoveFiles(removed)
             /\ \/ state' = "SetupRequired" /\ profile' = NoProfile /\ vault_key' = 0
                \/ removed <= 3 /\ UNCHANGED << state, profile, vault_key >>
                \/ state' = "Stopped" /\ profile' = NoProfile /\ vault_key' = 0
      <3>1. Len(RemovalOrder) = 3
        BY DEF RemovalOrder
      <3> QED
        BY <1>8, <3>1 DEF finish_reset, StopsRunning, Becomes, memory
    <2>2. /\ data' \in [Stores -> 0 .. MaxVaultKeys]
          /\ \A store \in Stores : data'[store] \in { 0, data[store] }
          /\ removed > 3 => \A store \in Stores : data'[store] = 0
      BY <2>1, AuthAssumption
      DEF RemoveFiles, RemovalOrder, Stores, StorageInv, StorageTypes, AuthAssumption
    <2>3. IF removed > 3 THEN disk' = NoProfile /\ shown' = 0
                         ELSE disk' = disk /\ shown' = shown
      BY <2>1 DEF RemoveFiles, ProfileRemoved, RemovalOrder
    <2>4. UNCHANGED << vaultKeys, recoveryKeys >>
      BY <1>8 DEF finish_reset, generated
    <2>5. StorageTypes'
      BY <2>1, <2>2, <2>3, <2>4, AuthAssumption
      DEF StorageInv, StorageTypes, AuthAssumption
    <2>6. DataMatchesProfile'
      BY <2>2, <2>3 DEF StorageInv, DataMatchesProfile
    <2>7. MemoryMatchesDisk' /\ (state' \in { "Locked", "Unlocked" } => profile' # NoProfile)
      BY <2>1, <2>3 DEF StorageInv, MemoryMatchesDisk
    <2>8. ShownKeyOpensProfile'
      BY <2>3 DEF StorageInv, ShownKeyOpensProfile
    <2> QED
      BY <2>5, <2>6, <2>7, <2>8 DEF StorageInv
  <1>9. CASE Stop
    BY <1>1, <1>9 DEF Stop, StopsRunning
  <1>10. CASE Load
    BY <1>1, <1>10 DEF Load
  <1>11. CASE FindDamage
    BY <1>1, <1>11 DEF FindDamage
  <1>12. ASSUME NEW password \in Passwords, unlock(password)
         PROVE  StorageInv'
    BY <1>1, <1>12 DEF unlock
  <1>13. ASSUME NEW correct \in BOOLEAN, unlock_with_pin(correct)
         PROVE  StorageInv'
    BY <1>1, <1>13 DEF unlock_with_pin
  <1>14. CASE RecoverWithWrongKey
    BY <1>1, <1>14 DEF RecoverWithWrongKey
  <1>15. CASE lock
    BY <1>1, <1>15 DEF lock
  <1>16. CASE Tick
    BY <1>1, <1>16 DEF Tick
  <1>17. CASE UNCHANGED vars
    BY <1>1, <1>17 DEF vars, generated
  <1> QED
    BY <1>2, <1>3, <1>4, <1>5, <1>6, <1>7, <1>8, <1>9, <1>10, <1>11, <1>12, <1>13,
       <1>14, <1>15, <1>16, <1>17 DEF Next

(* Time that passes keeps an age in its range.                             *)
LEMMA AgedType ==
    ASSUME NEW age \in Nat, NEW seconds \in Nat, NEW longest \in Nat
    PROVE  Aged(age, seconds, longest) \in 0 .. longest
  BY DEF Aged

(* What a step can do to the counter of wrong guesses: nothing, forget     *)
(* them, let time pass, or count one more, which a guess in a locked       *)
(* session does when the delay is over.                                    *)
LEMMA AttemptSteps ==
    ASSUME [Next]_vars
    PROVE  \/ UNCHANGED << failed_attempts, sinceFailed, wrong, sinceWrong >>
           \/ ResetAttempts /\ ForgetGuesses
           \/ \E seconds \in Nat :
                 /\ sinceFailed' = Aged(sinceFailed, seconds, LongestDelay)
                 /\ sinceWrong' = Aged(sinceWrong, seconds, LongestDelay)
                 /\ UNCHANGED << failed_attempts, wrong >>
           \/ /\ AttemptAllowed
              /\ failed_attempts < MaxFailures
              /\ failed_attempts' = failed_attempts + 1
              /\ sinceFailed' = 0
              /\ wrong' = wrong + 1
              /\ sinceWrong' = 0
  <1> USE DEF attempts, guesses
  <1>0. Verification \in Nat /\ 0 \in Nat /\ 1 \in Nat
    BY AuthAssumption DEF AuthAssumption
  <1>1. CASE Stop
    BY <1>1 DEF Stop, StopsRunning
  <1>2. CASE Load
    BY <1>2 DEF Load
  <1>3. CASE FindDamage
    BY <1>3 DEF FindDamage
  <1>4. ASSUME NEW password \in Passwords, create_master_password(password)
        PROVE  \/ UNCHANGED << attempts, guesses >>
               \/ ResetAttempts /\ ForgetGuesses
    BY <1>4 DEF create_master_password, StopsRunning
  <1>5. ASSUME NEW password \in Passwords, unlock(password)
        PROVE  \/ ResetAttempts /\ ForgetGuesses
               \/ AttemptAllowed /\ RecordFailedAttempt(Verification)
    BY <1>5 DEF unlock
  <1>6. ASSUME NEW password \in Passwords, recover_master_password(password)
        PROVE  \/ UNCHANGED << attempts, guesses >>
               \/ ResetAttempts /\ ForgetGuesses
    BY <1>6 DEF recover_master_password, ReplacedLast, StopsRunning
  <1>7. ASSUME NEW password \in Passwords, change_master_password(password)
        PROVE  \/ UNCHANGED << attempts, guesses >>
               \/ ResetAttempts /\ ForgetGuesses
    BY <1>7 DEF change_master_password, ChangeUnlocked, ReplacedLast, StopsRunning
  <1>8. ASSUME NEW correct \in BOOLEAN, unlock_with_pin(correct)
        PROVE  \/ UNCHANGED << attempts, guesses >>
               \/ RecordFailedPinAttempt(Verification)
    BY <1>8 DEF unlock_with_pin
  <1>9. ASSUME RecoverWithWrongKey
        PROVE  AttemptAllowed /\ \E seconds \in Nat : RecordFailedAttempt(seconds)
    BY <1>0, <1>9 DEF RecoverWithWrongKey, RecoveryAllowed
  <1>10. ASSUME regenerate_recovery_key
         PROVE  \/ UNCHANGED << attempts, guesses >>
                \/ ResetAttempts /\ ForgetGuesses
    BY <1>10 DEF regenerate_recovery_key, ChangeUnlocked, ReplacedLast, StopsRunning
  <1>11. ASSUME NEW configured \in BOOLEAN, replace_pin(configured)
         PROVE  \/ UNCHANGED << attempts, guesses >>
                \/ ResetAttempts /\ ForgetGuesses
    BY <1>11 DEF replace_pin, ReplacedLast, StopsRunning
  <1>12. CASE lock
    BY <1>12 DEF lock
  <1>13. ASSUME NEW store \in Stores, WriteStore(store)
         PROVE  UNCHANGED << attempts, guesses >>
    BY <1>13 DEF WriteStore
  <1>14. ASSUME finish_reset
         PROVE  \/ UNCHANGED << attempts, guesses >>
                \/ ResetAttempts /\ ForgetGuesses
    BY <1>14 DEF finish_reset, StopsRunning
  <1>15. CASE Tick
    BY <1>0, <1>15 DEF Tick
  <1>16. CASE UNCHANGED vars
    BY <1>16 DEF vars
  <1> QED
    BY <1>0, <1>1, <1>2, <1>3, <1>4, <1>5, <1>6, <1>7, <1>8, <1>9, <1>10, <1>11,
       <1>12, <1>13, <1>14, <1>15, <1>16
    DEF Next, RecordFailedAttempt, RecordFailedPinAttempt

(* The counter of wrong guesses.                                           *)
LEMMA NextKeepsAttempts == AttemptInv /\ [Next]_vars => AttemptInv'
  <1> SUFFICES ASSUME AttemptInv, [Next]_vars PROVE AttemptInv'
    OBVIOUS
  <1>1. LongestDelay \in Nat /\ sinceFailed \in Nat
    BY DEF AttemptInv, LongestDelay
  <1>2. \A seconds \in Nat : Aged(sinceFailed, seconds, LongestDelay) \in 0 .. LongestDelay
    BY <1>1, AgedType
  <1> QED
    BY <1>2, AttemptSteps, AuthAssumption
    DEF AttemptInv, ResetAttempts, ForgetGuesses, LongestDelay, AuthAssumption

(* What a step can do to the PIN counter: nothing, without leaving the     *)
(* locked session unless its guesses are forgotten; forget the guesses,    *)
(* with or without a reset of the counter; reset the counter of a session  *)
(* that is not locked; let time pass; or count one more.                   *)
LEMMA PinSteps ==
    ASSUME [Next]_vars
    PROVE  \/ /\ UNCHANGED << pin_failed_attempts, sincePinFailed, pin_disabled >>
              /\ pinGuesses' = 0
           \/ ResetPinAttempts /\ pinGuesses' = 0
           \/ /\ ResetPinAttempts
              /\ state = "Unlocked" /\ UNCHANGED << state, pinGuesses >>
           \/ /\ \E seconds \in Nat : sincePinFailed' = Aged(sincePinFailed, seconds, 2)
              /\ UNCHANGED << pin_failed_attempts, pin_disabled, state, pinGuesses >>
           \/ /\ UNCHANGED << pin_failed_attempts, sincePinFailed, pin_disabled,
                              pinGuesses >>
              /\ \/ state' = state
                 \/ state' = "DataError"
                 \/ state \in { "Stopped", "SetupRequired", "Unlocked" }
           \/ /\ \E seconds \in Nat : RecordFailedPinAttempt(seconds)
              /\ ~pin_disabled
              /\ state' = state
              /\ state = "Locked"
  <1> USE DEF pinAttempts
  <1>0. Verification \in Nat /\ 0 \in Nat /\ 1 \in Nat
    BY AuthAssumption DEF AuthAssumption
  <1>1. CASE Stop
    BY <1>1 DEF Stop, StopsRunning
  <1>2. CASE Load
    BY <1>2 DEF Load
  <1>3. CASE FindDamage
    BY <1>3 DEF FindDamage, Becomes
  <1>4. ASSUME NEW password \in Passwords, create_master_password(password)
        PROVE  \/ UNCHANGED << pinAttempts, pinGuesses >> /\ state = "SetupRequired"
               \/ ResetPinAttempts /\ pinGuesses' = 0
    BY <1>4 DEF create_master_password, StopsRunning
  <1>5. ASSUME NEW password \in Passwords, unlock(password)
        PROVE  \/ ResetPinAttempts /\ pinGuesses' = 0
               \/ RecordFailedAttempt(Verification) /\ state' = state
    BY <1>5 DEF unlock, memory
  <1>6. ASSUME NEW password \in Passwords, recover_master_password(password)
        PROVE  \/ UNCHANGED pinAttempts /\ pinGuesses' = 0
               \/ UNCHANGED << pinAttempts, pinGuesses, state >>
               \/ ResetPinAttempts /\ pinGuesses' = 0
    BY <1>6 DEF recover_master_password, ReplaceRefused, ReplacedLast, StopsRunning, memory
  <1>7. ASSUME NEW replacement, NEW shownAfter, ChangeUnlocked(replacement, shownAfter)
        PROVE  \/ UNCHANGED << pinAttempts, pinGuesses, state >>
               \/ ResetPinAttempts /\ pinGuesses' = 0
    BY <1>7 DEF ChangeUnlocked, ReplaceRefused, ReplacedLast, StopsRunning, memory
  <1>8. ASSUME NEW correct \in BOOLEAN, unlock_with_pin(correct)
        PROVE  \/ ResetPinAttempts /\ pinGuesses' = 0
               \/ /\ RecordFailedPinAttempt(Verification) /\ ~pin_disabled
                  /\ state' = state /\ state = "Locked"
    BY <1>8 DEF unlock_with_pin, memory
  <1>9. ASSUME RecoverWithWrongKey
        PROVE  (\E seconds \in Nat : RecordFailedAttempt(seconds)) /\ state' = state
    BY <1>0, <1>9 DEF RecoverWithWrongKey, memory
  <1>10. ASSUME NEW configured \in BOOLEAN, replace_pin(configured)
         PROVE  \/ ResetPinAttempts /\ state = "Unlocked" /\ UNCHANGED << state, pinGuesses >>
                \/ UNCHANGED << pinAttempts, pinGuesses, state >>
                \/ ResetPinAttempts /\ pinGuesses' = 0
    BY <1>10 DEF replace_pin, ReplaceRefused, ReplacedLast, StopsRunning, memory
  <1>11. CASE lock
    BY <1>11 DEF lock, LockPinAttempts, memory
  <1>12. ASSUME NEW store \in Stores, WriteStore(store)
         PROVE  UNCHANGED << pinAttempts, pinGuesses, state >>
    BY <1>12 DEF WriteStore, memory
  <1>13. ASSUME finish_reset
         PROVE  \/ UNCHANGED << pinAttempts, pinGuesses, state >>
                \/ ResetPinAttempts /\ pinGuesses' = 0
    BY <1>13 DEF finish_reset, StopsRunning, memory
  <1>14. CASE Tick
    BY <1>0, <1>14 DEF Tick, memory
  <1>15. CASE UNCHANGED vars
    BY <1>15 DEF vars, memory
  <1>16. ASSUME \/ \E password \in Passwords : change_master_password(password)
                \/ regenerate_recovery_key
         PROVE  \E replacement, shownAfter : ChangeUnlocked(replacement, shownAfter)
    BY <1>16 DEF change_master_password, regenerate_recovery_key
  <1> QED
    BY <1>0, <1>1, <1>2, <1>3, <1>4, <1>5, <1>6, <1>7, <1>8, <1>9, <1>10, <1>11,
       <1>12, <1>13, <1>14, <1>15, <1>16
    DEF Next, RecordFailedAttempt

(* The PIN counter.                                                        *)
LEMMA NextKeepsPin == PinInv /\ [Next]_vars => PinInv'
  <1> SUFFICES ASSUME PinInv, [Next]_vars PROVE PinInv'
    OBVIOUS
  <1>1. sincePinFailed \in Nat /\ 2 \in Nat /\ 0 \in Nat
    BY DEF PinInv
  <1>2. \A seconds \in Nat : /\ Aged(sincePinFailed, seconds, 2) \in 0 .. 2
                             /\ Aged(0, seconds, 2) \in 0 .. 2
    BY <1>1, AgedType
  <1>3. ASSUME NEW seconds \in Nat, RecordFailedPinAttempt(seconds), ~pin_disabled,
               state' = state, state = "Locked"
        PROVE  PinInv'
    <2>1. pin_failed_attempts \in 0 .. 4
      <3>1. pin_failed_attempts # 5
        BY <1>3, Zenon DEF PinInv
      <3> QED
        BY <3>1 DEF PinInv
    <2>2. pin_disabled' = (pin_failed_attempts' = 5)
      <3>1. (pin_failed_attempts + 1 >= 5) <=> (pin_failed_attempts + 1 = 5)
        BY <2>1
      <3>2. /\ pin_disabled' = (pin_failed_attempts + 1 >= 5)
            /\ pin_failed_attempts' = pin_failed_attempts + 1
        BY <1>3, Zenon DEF RecordFailedPinAttempt
      <3>3. (pin_failed_attempts + 1 >= 5) <=> (pin_failed_attempts' = 5)
        BY <3>1, <3>2, Zenon
      <3>4. (pin_failed_attempts + 1 >= 5) = (pin_failed_attempts' = 5)
        BY <3>3, SMT
      <3> QED
        BY <3>2, <3>4, Zenon
    <2>3. /\ pin_failed_attempts' = pin_failed_attempts + 1
          /\ sincePinFailed' = Aged(0, seconds, 2)
          /\ pinGuesses' = pinGuesses + 1
      BY <1>3 DEF RecordFailedPinAttempt
    <2> QED
      BY <1>2, <1>3, <2>1, <2>2, <2>3 DEF PinInv
  <1>4. ASSUME ResetPinAttempts
        PROVE  /\ pin_disabled' = (pin_failed_attempts' = 5)
               /\ pin_failed_attempts' = 0
               /\ sincePinFailed' = 2
    <2>1. pin_disabled' = FALSE /\ pin_failed_attempts' = 0 /\ pin_failed_attempts' # 5
      BY <1>4 DEF ResetPinAttempts
    <2>2. pin_disabled' = (pin_failed_attempts' = 5)
      BY <2>1, Zenon
    <2> QED
      BY <1>4, <2>1, <2>2 DEF ResetPinAttempts
  <1>5. CASE ResetPinAttempts /\ pinGuesses' = 0
    BY <1>4, <1>5 DEF PinInv
  <1>6. CASE ResetPinAttempts /\ state = "Unlocked" /\ UNCHANGED << state, pinGuesses >>
    BY <1>4, <1>6 DEF PinInv
  <1>7. ASSUME UNCHANGED << pin_failed_attempts, pin_disabled >>
        PROVE  pin_disabled' = (pin_failed_attempts' = 5)
    BY <1>7, Zenon DEF PinInv
  <1> QED
    BY <1>2, <1>3, <1>5, <1>6, <1>7, PinSteps DEF PinInv

-----------------------------------------------------------------------------
(* The files, the session and the counters in every reachable state.       *)
THEOREM Invariant == Spec => []IInv
  <1>1. IInv /\ [Next]_vars => IInv'
    BY NextKeepsStorage, NextKeepsAttempts, NextKeepsPin DEF IInv, CounterInv
  <1> QED
    BY <1>1, InitIInv, PTL DEF Spec

(* Every variable stays in its type.                                       *)
THEOREM TypesAreKept == Spec => []TypeOK
  <1>1. IInv => TypeOK
    <2> SUFFICES ASSUME IInv PROVE TypeOK
      OBVIOUS
    <2>1. wrong \in Nat /\ sinceWrong \in 0 .. LongestDelay
      BY AuthAssumption DEF IInv, CounterInv, AttemptInv, AuthAssumption
    <2> QED
      BY <2>1, Zenon DEF IInv, StorageInv, StorageTypes, CounterInv, AttemptInv, PinInv,
                         TypeOK
  <1> QED
    BY <1>1, Invariant, PTL

(* No vault file is ever left that the profile on disk cannot open, after  *)
(* any sequence of resets, rotations and setups that fail or are cut short.*)
THEOREM DataIsReadable == Spec => []DataMatchesProfile
  <1>1. IInv => DataMatchesProfile
    BY DEF IInv, StorageInv
  <1> QED
    BY <1>1, Invariant, PTL

(* The session works with the profile and the key that are on disk.        *)
THEOREM MemoryIsCurrent == Spec => []MemoryMatchesDisk
  <1>1. IInv => MemoryMatchesDisk
    BY DEF IInv, StorageInv
  <1> QED
    BY <1>1, Invariant, PTL

(* The recovery key in the user's hands opens the profile.                 *)
THEOREM ShownKeyIsValid == Spec => []ShownKeyOpensProfile
  <1>1. IInv => ShownKeyOpensProfile
    BY DEF IInv, StorageInv
  <1> QED
    BY <1>1, Invariant, PTL

(* A locked session never sees a sixth wrong PIN.                          *)
THEOREM PinBudget == Spec => []PinBudgetHolds
  <1>1. IInv => PinBudgetHolds
    BY DEF IInv, CounterInv, PinInv, PinBudgetHolds
  <1> QED
    BY <1>1, Invariant, PTL

(* A wrong master password or recovery key never comes before the delay    *)
(* that the wrong ones before it call for.                                 *)
THEOREM GuessesAreDelayed == Spec => GuessesAreSpaced
  <1>1. IInv /\ [Next]_vars
          => [wrong' > wrong => sinceWrong >= attempt_delay(wrong)]_vars
    <2> SUFFICES ASSUME IInv, [Next]_vars, wrong' > wrong
                 PROVE  sinceWrong >= attempt_delay(wrong)
      OBVIOUS
    <2>1. wrong \in Nat /\ wrong = failed_attempts /\ sinceWrong = sinceFailed
      BY AuthAssumption DEF IInv, CounterInv, AttemptInv, AuthAssumption
    <2>2. AttemptAllowed
      BY <2>1, AttemptSteps DEF ForgetGuesses
    <2> QED
      BY <2>1, <2>2 DEF AttemptAllowed
  <1> QED
    BY <1>1, Invariant, PTL DEF Spec, GuessesAreSpaced
=============================================================================
