-------------------------------- MODULE Auth --------------------------------
(***************************************************************************)
(* Authentication in KeyNest (security/auth.rs) over the profile store     *)
(* (security/storage.rs): the master password, the recovery key and the    *)
(* device PIN that each wrap the vault key, the counters that slow down    *)
(* wrong guesses, and the destructive reset.                               *)
(*                                                                         *)
(* Every operation holds the auth mutex from start to end, so to another   *)
(* thread it is one step.  What can come between its parts is the end of   *)
(* the process: an operation that writes the profile either commits and    *)
(* goes on, or is refused by the file system, or commits and never gets to *)
(* update memory.  Time is relative: a counter's clock is the age of its   *)
(* last failure.                                                           *)
(***************************************************************************)
EXTENDS Naturals, Sequences

CONSTANTS Passwords,
          NoProfile,        (* profile.json does not exist                  *)
          Verification,     (* the seconds one key derivation takes         *)
          MaxVaultKeys,     (* bound: profiles created in one behaviour     *)
          MaxRecoveryKeys,  (* bound: recovery keys generated               *)
          MaxFailures       (* bound: wrong guesses counted                 *)

(* The files that hold what the vault key protects, in the order in which  *)
(* a reset removes them; profile.json comes last.                          *)
Stores == { "folders", "notes", "vault" }
RemovalOrder == << "folders", "notes", "vault" >>

VaultKeys == 1 .. MaxVaultKeys

(* StoredProfile, by what its wrappers open with and what they contain.    *)
(* recovery = 0 is the legacy format, which has no recovery wrapper.       *)
Profiles == [master : Passwords, recovery : 0 .. MaxRecoveryKeys,
             pin : BOOLEAN, key : VaultKeys]

ASSUME AuthAssumption ==
    /\ Passwords # {}
    /\ NoProfile \notin Profiles
    /\ Verification \in Nat
    /\ MaxVaultKeys \in Nat \ { 0 }
    /\ MaxRecoveryKeys \in Nat
    /\ MaxFailures \in Nat

VARIABLES
    disk,                       (* profile.json                             *)
    data,                       (* the key each store is encrypted under,   *)
                                (* 0 when the file does not exist           *)
    state, profile, vault_key,  (* AuthState                                *)
    failed_attempts, sinceFailed,
    pin_failed_attempts, sincePinFailed, pin_disabled,    (* AuthInner      *)
    vaultKeys, recoveryKeys,    (* how many have been generated             *)
    shown,                      (* history: the newest recovery key that    *)
                                (* was handed to the user                   *)
    wrong, sinceWrong,          (* history: wrong guesses of the master     *)
                                (* password or recovery key in a row        *)
    pinGuesses                  (* history: wrong PINs in this locked       *)
                                (* session                                  *)

memory      == << state, profile, vault_key >>
attempts    == << failed_attempts, sinceFailed >>
pinAttempts == << pin_failed_attempts, sincePinFailed, pin_disabled >>
generated   == << vaultKeys, recoveryKeys >>
guesses     == << wrong, sinceWrong >>
vars == << disk, data, memory, attempts, pinAttempts, generated, shown, guesses,
           pinGuesses >>

attempt_delay(failures) ==
    CASE failures <= 3 -> 0
      [] failures = 4  -> 2
      [] failures = 5  -> 5
      [] failures = 6  -> 10
      [] OTHER         -> 30

LongestDelay == 30

pin_attempt_delay(failures) == IF failures = 4 THEN 2 ELSE 0

TypeOK ==
    /\ disk \in Profiles \cup { NoProfile }
    /\ data \in [Stores -> 0 .. MaxVaultKeys]
    /\ state \in { "Stopped", "SetupRequired", "Locked", "Unlocked", "DataError" }
    /\ profile \in Profiles \cup { NoProfile }
    /\ vault_key \in 0 .. MaxVaultKeys
    /\ failed_attempts \in 0 .. MaxFailures
    /\ sinceFailed \in 0 .. LongestDelay
    /\ pin_failed_attempts \in 0 .. 5
    /\ sincePinFailed \in 0 .. 2
    /\ pin_disabled = (pin_failed_attempts = 5)
    /\ vaultKeys \in 0 .. MaxVaultKeys
    /\ recoveryKeys \in 0 .. MaxRecoveryKeys
    /\ shown \in 0 .. MaxRecoveryKeys
    /\ wrong \in Nat
    /\ sinceWrong \in 0 .. LongestDelay
    /\ pinGuesses \in Nat

(* A first start, or a start over a profile in the legacy format.          *)
Init ==
    /\ \/ disk = NoProfile /\ vaultKeys = 0
       \/ /\ disk \in [master : Passwords, recovery : { 0 }, pin : { FALSE }, key : { 1 }]
          /\ vaultKeys = 1
    /\ data = [store \in Stores |-> 0]
    /\ state = "Stopped"
    /\ profile = NoProfile
    /\ vault_key = 0
    /\ failed_attempts = 0
    /\ sinceFailed = LongestDelay
    /\ pin_failed_attempts = 0
    /\ sincePinFailed = 2
    /\ pin_disabled = FALSE
    /\ recoveryKeys = 0
    /\ shown = 0
    /\ wrong = 0
    /\ sinceWrong = LongestDelay
    /\ pinGuesses = 0

-----------------------------------------------------------------------------
(* Attempt counters.                                                       *)

ResetAttempts == failed_attempts' = 0 /\ sinceFailed' = LongestDelay

ResetPinAttempts ==
    /\ pin_failed_attempts' = 0
    /\ sincePinFailed' = 2
    /\ pin_disabled' = FALSE

ForgetGuesses == wrong' = 0 /\ sinceWrong' = LongestDelay

Aged(age, seconds, longest) ==
    IF age + seconds < longest THEN age + seconds ELSE longest

(* check_attempt_delay and check_pin_attempt_delay                         *)
AttemptAllowed == sinceFailed >= attempt_delay(failed_attempts)
PinAttemptAllowed == sincePinFailed >= pin_attempt_delay(pin_failed_attempts)

(* Mutant: the failure is dated at the start of the verification.          *)
RecordFailedAttemptEarly(seconds) ==
    /\ failed_attempts < MaxFailures
    /\ failed_attempts' = failed_attempts + 1
    /\ sinceFailed' = Aged(0, seconds, LongestDelay)
    /\ wrong' = wrong + 1
    /\ sinceWrong' = 0
    /\ sincePinFailed' = Aged(sincePinFailed, seconds, 2)
    /\ UNCHANGED << pin_failed_attempts, pin_disabled, pinGuesses >>

(* record_failed_attempt: the failure is dated after the verification, so  *)
(* the seconds it took do not count towards the delay.                     *)
RecordFailedAttempt(seconds) ==
    /\ failed_attempts < MaxFailures
    /\ failed_attempts' = failed_attempts + 1
    /\ sinceFailed' = 0
    /\ wrong' = wrong + 1
    /\ sinceWrong' = 0
    /\ sincePinFailed' = Aged(sincePinFailed, seconds, 2)
    /\ UNCHANGED << pin_failed_attempts, pin_disabled, pinGuesses >>

(* record_failed_pin_attempt: dated when the PIN was entered, so the       *)
(* seconds the verification took have already passed.                      *)
RecordFailedPinAttempt(seconds) ==
    /\ pin_failed_attempts' = pin_failed_attempts + 1
    /\ sincePinFailed' = Aged(0, seconds, 2)
    /\ pin_disabled' = (pin_failed_attempts + 1 >= 5)
    /\ pinGuesses' = pinGuesses + 1
    /\ sinceFailed' = Aged(sinceFailed, seconds, LongestDelay)
    /\ sinceWrong' = Aged(sinceWrong, seconds, LongestDelay)
    /\ UNCHANGED << failed_attempts, wrong >>

-----------------------------------------------------------------------------
(* The process and the profile file.                                       *)

Becomes(status, contents, key) ==
    /\ state' = status
    /\ profile' = contents
    /\ vault_key' = key

(* The process is gone, and with it everything that is not in a file.      *)
StopsRunning ==
    /\ Becomes("Stopped", NoProfile, 0)
    /\ ResetAttempts
    /\ ResetPinAttempts
    /\ ForgetGuesses
    /\ pinGuesses' = 0

Stop ==
    /\ state # "Stopped"
    /\ StopsRunning
    /\ UNCHANGED << disk, data, generated, shown >>

(* AuthService::load; a profile that cannot be read is left alone.         *)
Load ==
    /\ state = "Stopped"
    /\ \/ disk = NoProfile /\ Becomes("SetupRequired", NoProfile, 0)
       \/ disk # NoProfile /\ Becomes("Locked", disk, 0)
       \/ disk # NoProfile /\ Becomes("DataError", NoProfile, 0)
    /\ UNCHANGED << disk, data, attempts, pinAttempts, generated, shown, guesses,
                    pinGuesses >>

(* Mutant: memory is updated even when the file was not replaced.          *)
ReplaceRefusedButRemembered(replacement) ==
    /\ profile' = replacement
    /\ UNCHANGED << disk, data, state, vault_key, shown >>

(* Mutant: the new recovery key is handed out before it is saved.          *)
ReplaceRefusedButShown(replacement) ==
    /\ shown' = replacement.recovery
    /\ UNCHANGED << disk, data, memory >>

(* ProfileStore::replace fails before its commit.                          *)
ReplaceRefused(replacement) == UNCHANGED << disk, data, memory, shown >>

(* ... or commits, and memory follows ...                                  *)
Replaced(replacement) ==
    /\ disk' = replacement
    /\ profile' = replacement
    /\ UNCHANGED data

(* ... or commits as the last thing this process does.  A recovery key     *)
(* made for the replacement is never shown.                                *)
ReplacedLast(replacement) ==
    /\ disk' = replacement
    /\ shown' = IF replacement.recovery = disk.recovery THEN shown ELSE 0
    /\ StopsRunning
    /\ UNCHANGED data

(* A change of the profile in an unlocked session, after the current       *)
(* master password was verified against it.                                *)
ChangeUnlocked(replacement, shownAfter) ==
    \/ /\ Replaced(replacement)
       /\ shown' = shownAfter
       /\ UNCHANGED << state, vault_key, attempts, pinAttempts, guesses, pinGuesses >>
    \/ /\ ReplaceRefused(replacement)
       /\ UNCHANGED << attempts, pinAttempts, guesses, pinGuesses >>
    \/ ReplacedLast(replacement)

-----------------------------------------------------------------------------
(* The operations.                                                         *)

create_master_password(password) ==
    /\ state = "SetupRequired"
    /\ vaultKeys < MaxVaultKeys
    /\ recoveryKeys < MaxRecoveryKeys
    /\ vaultKeys' = vaultKeys + 1
    /\ recoveryKeys' = recoveryKeys + 1
    /\ LET created == [master |-> password, recovery |-> recoveryKeys + 1,
                       pin |-> FALSE, key |-> vaultKeys + 1]
       IN  \/ /\ disk = NoProfile
              /\ disk' = created
              /\ Becomes("Unlocked", created, created.key)
              /\ shown' = created.recovery
              /\ ResetAttempts
              /\ ForgetGuesses
              /\ UNCHANGED << pinAttempts, pinGuesses >>
           \/ /\ Becomes("DataError", NoProfile, 0)
              /\ UNCHANGED << disk, shown, attempts, pinAttempts, guesses, pinGuesses >>
           \/ /\ disk = NoProfile
              /\ disk' = created
              /\ StopsRunning
              /\ UNCHANGED shown
    /\ UNCHANGED data

unlock(password) ==
    /\ state = "Locked"
    /\ AttemptAllowed
    /\ IF password = profile.master
       THEN /\ Becomes("Unlocked", profile, profile.key)
            /\ ResetAttempts
            /\ ResetPinAttempts
            /\ ForgetGuesses
            /\ pinGuesses' = 0
       ELSE /\ RecordFailedAttempt(Verification)
            /\ UNCHANGED memory
    /\ UNCHANGED << disk, data, generated, shown >>

(* A wrapper that cannot even be tried, met by unlock or by recovery.      *)
FindDamage ==
    /\ state = "Locked"
    /\ AttemptAllowed
    /\ Becomes("DataError", NoProfile, 0)
    /\ UNCHANGED << disk, data, attempts, pinAttempts, generated, shown, guesses,
                    pinGuesses >>

unlock_with_pin(correct) ==
    /\ state = "Locked"
    /\ ~pin_disabled
    /\ PinAttemptAllowed
    /\ profile.pin
    /\ IF correct
       THEN /\ Becomes("Unlocked", profile, profile.key)
            /\ ResetPinAttempts
            /\ pinGuesses' = 0
            /\ UNCHANGED << attempts, guesses >>
       ELSE /\ RecordFailedPinAttempt(Verification)
            /\ UNCHANGED memory
    /\ UNCHANGED << disk, data, generated, shown >>

RecoveryAllowed == AttemptAllowed

RecoverWithWrongKey ==
    /\ state = "Locked"
    /\ RecoveryAllowed
    /\ profile.recovery # 0
    /\ \E seconds \in { 0, Verification } :   (* 0: malformed, not derived  *)
          RecordFailedAttempt(seconds)
    /\ UNCHANGED << disk, data, memory, generated, shown >>

(* with_recovery() leaves the PIN out of the replacement.                  *)
recover_master_password(password) ==
    /\ state = "Locked"
    /\ RecoveryAllowed
    /\ profile.recovery # 0
    /\ recoveryKeys < MaxRecoveryKeys
    /\ recoveryKeys' = recoveryKeys + 1
    /\ LET replacement == [master |-> password, recovery |-> recoveryKeys + 1,
                           pin |-> FALSE, key |-> profile.key]
       IN  \/ /\ Replaced(replacement)
              /\ state' = "Unlocked"
              /\ vault_key' = profile.key
              /\ shown' = replacement.recovery
              /\ ResetAttempts
              /\ ForgetGuesses
              /\ pinGuesses' = 0
              /\ UNCHANGED pinAttempts
           \/ /\ ReplaceRefused(replacement)
              /\ UNCHANGED << attempts, pinAttempts, guesses, pinGuesses >>
           \/ ReplacedLast(replacement)
    /\ UNCHANGED vaultKeys

regenerate_recovery_key ==
    /\ state = "Unlocked"
    /\ recoveryKeys < MaxRecoveryKeys
    /\ recoveryKeys' = recoveryKeys + 1
    /\ ChangeUnlocked([profile EXCEPT !.recovery = recoveryKeys + 1], recoveryKeys + 1)
    /\ UNCHANGED vaultKeys

change_master_password(password) ==
    /\ state = "Unlocked"
    /\ ChangeUnlocked([profile EXCEPT !.master = password], shown)
    /\ UNCHANGED generated

(* setup_pin, change_pin and remove_pin: the failure counters are reset    *)
(* only once the new profile is in place.                                  *)
replace_pin(configured) ==
    /\ state = "Unlocked"
    /\ profile.pin \/ configured
    /\ LET replacement == [profile EXCEPT !.pin = configured]
       IN  \/ /\ Replaced(replacement)
              /\ ResetPinAttempts
              /\ UNCHANGED << state, vault_key, shown, attempts, guesses, pinGuesses >>
           \/ /\ ReplaceRefused(replacement)
              /\ UNCHANGED << attempts, pinAttempts, guesses, pinGuesses >>
           \/ ReplacedLast(replacement)
    /\ UNCHANGED generated

(* Mutant: every lock refills the PIN budget, even of a locked session.    *)
LockRefillsPinAttempts ==
    /\ ResetPinAttempts
    /\ pinGuesses' = IF state = "Unlocked" THEN 0 ELSE pinGuesses

LockPinAttempts ==
    IF state = "Unlocked"
    THEN ResetPinAttempts /\ pinGuesses' = 0
    ELSE UNCHANGED << pinAttempts, pinGuesses >>

lock ==
    /\ state # "Stopped"
    /\ LockPinAttempts
    /\ IF state = "Unlocked" THEN Becomes("Locked", profile, 0) ELSE UNCHANGED memory
    /\ UNCHANGED << disk, data, attempts, generated, shown, guesses >>

(* A vault, note or folder command writes its store through                *)
(* require_vault_key; an existing store that does not open with the key is *)
(* an error.                                                               *)
WriteStore(store) ==
    /\ state = "Unlocked"
    /\ data[store] \in { 0, vault_key }
    /\ data' = [data EXCEPT ![store] = vault_key]
    /\ UNCHANGED << disk, memory, attempts, pinAttempts, generated, shown, guesses,
                    pinGuesses >>

(* Mutant: profile.json is removed first.                                  *)
ProfileRemovedAfterFirst(removed) == removed >= 1

(* ProfileStore::reset removes profile.json after every store.             *)
ProfileRemoved(removed) == removed > Len(RemovalOrder)

RemoveFiles(removed) ==
    /\ data' = [store \in Stores |->
                  IF \E i \in 1 .. Len(RemovalOrder) :
                        i <= removed /\ RemovalOrder[i] = store
                  THEN 0 ELSE data[store]]
    /\ disk' = IF ProfileRemoved(removed) THEN NoProfile ELSE disk
    /\ shown' = IF ProfileRemoved(removed) THEN 0 ELSE shown

(* finish_reset, from an authenticated reset of an unlocked session or     *)
(* from the recovery screen: it removes the files one by one, and can fail *)
(* or be cut short after any of them.                                      *)
finish_reset ==
    /\ state \in { "Unlocked", "Locked", "DataError" }
    /\ \/ /\ RemoveFiles(Len(RemovalOrder) + 1)
          /\ Becomes("SetupRequired", NoProfile, 0)
          /\ ResetAttempts
          /\ ResetPinAttempts
          /\ ForgetGuesses
          /\ pinGuesses' = 0
       \/ /\ \E removed \in 0 .. Len(RemovalOrder) : RemoveFiles(removed)
          /\ UNCHANGED << memory, attempts, pinAttempts, guesses, pinGuesses >>
       \/ /\ \E removed \in 0 .. Len(RemovalOrder) + 1 : RemoveFiles(removed)
          /\ StopsRunning
    /\ UNCHANGED generated

Tick ==
    /\ state # "Stopped"
    /\ sinceFailed' = Aged(sinceFailed, 1, LongestDelay)
    /\ sincePinFailed' = Aged(sincePinFailed, 1, 2)
    /\ sinceWrong' = Aged(sinceWrong, 1, LongestDelay)
    /\ UNCHANGED << disk, data, memory, failed_attempts, pin_failed_attempts,
                    pin_disabled, generated, shown, wrong, pinGuesses >>

Next ==
    \/ Stop \/ Load \/ FindDamage
    \/ \E password \in Passwords :
          \/ create_master_password(password)
          \/ unlock(password)
          \/ recover_master_password(password)
          \/ change_master_password(password)
    \/ \E correct \in BOOLEAN : unlock_with_pin(correct)
    \/ RecoverWithWrongKey
    \/ regenerate_recovery_key
    \/ \E configured \in BOOLEAN : replace_pin(configured)
    \/ lock
    \/ \E store \in Stores : WriteStore(store)
    \/ finish_reset
    \/ Tick

Spec == Init /\ [][Next]_vars

-----------------------------------------------------------------------------
(* Whatever file of the vault exists can be opened: its profile exists and *)
(* wraps the key the file was written under.  A reset that fails or is cut *)
(* short between two files, a rotation that is cut short after its commit, *)
(* and a setup after either of them never leave data behind that the next  *)
(* profile cannot read.                                                    *)
DataMatchesProfile ==
    \A store \in Stores :
        data[store] # 0 => disk # NoProfile /\ disk.key = data[store]

(* The profile in memory is the one on disk, however the last write ended: *)
(* a refused replacement is not believed, and the next change to the       *)
(* profile does not write back something older than the file.              *)
MemoryMatchesDisk ==
    /\ state \in { "Locked", "Unlocked" } => profile = disk
    /\ state = "Unlocked" => vault_key = disk.key

(* docs/security/offline-recovery.md: the service "returns the replacement *)
(* key only after persistence succeeds".  The recovery key the user was    *)
(* last shown opens the profile, unless a later rotation was cut short     *)
(* after its commit.                                                       *)
ShownKeyOpensProfile ==
    shown # 0 => disk # NoProfile /\ disk.recovery = shown

(* docs/security/attempt-throttling.md: master password and recovery key   *)
(* share one budget that locking, a refused recovery or a PIN unlock does  *)
(* not refill.  A wrong guess comes only after the delay that the wrong    *)
(* guesses before it call for, counted from the end of the last one.       *)
GuessesAreSpaced ==
    [][ wrong' > wrong => sinceWrong >= attempt_delay(wrong) ]_vars

(* Five wrong PINs are all a locked session gets before the master         *)
(* password is required, however often it is locked again meanwhile.       *)
PinBudgetHolds == pinGuesses <= 5
=============================================================================
